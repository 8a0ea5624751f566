--------------------- MODULE VehicleMessageGatewayProofs ---------------------
(***************************************************************************)
(* The correlation of the gateway, for any number of calls, message ids    *)
(* and sweepers: an outcome is final; if publishRoute does not outlast the *)
(* tombstone window, a waiting exchange can be reached by its answer, no   *)
(* answer to another call completes it while its message id is protected,  *)
(* and the gateway implements MessageExchange.                             *)
(*                                                                         *)
(* The properties are about calls, the code works on message ids.  What    *)
(* joins the two is that one message id has one call at a time (Alone),    *)
(* that a call between listing and return is either listed or protected by *)
(* a tombstone (Held), and that the id of a call that returned keeps its   *)
(* tombstone until the window is over (Traced).                            *)
(***************************************************************************)
EXTENDS VehicleMessageGateway, TLAPS

Inside == {"publishing", "accepted", "rejected", "unknown", "waiting", "woken"}

(* The thread of a call leaves its wait only with a terminal entry, and the *)
(* callback works on the entry of a call.                                   *)
Threads ==
    /\ \A c \in Calls :
          /\ pc[c] \in Inside \cup {"valid"} => msg[c] \in MsgIds
          /\ pc[c] = "done" <=> result[c] # "none"
          /\ wire[c] # "none" => msg[c] \in MsgIds
          /\ pc[c] = "woken" => terminal(c)
    /\ dl # Idle => dl.from \in Calls /\ wire[dl.from] = "sent"
    /\ dl.entry # NoCall => dl.entry \in Calls /\ dl # Idle

BaseInv == TypeOK /\ Threads

(* A call between listing and return is in the table, or was evicted. *)
Held ==
    \A c \in Calls : pc[c] \in Inside =>
        \/ table[msg[c]] = c
        \/ terminal(c) /\ tomb[msg[c]] = "fresh"

(* A message id has one call at a time between listing and return. *)
Alone ==
    \A c, d \in Calls :
        pc[c] \in Inside /\ pc[d] \in Inside /\ msg[c] = msg[d] => c = d

(* The table lists calls under their own id, and no id with a tombstone. *)
Listing ==
    \A m \in MsgIds :
        /\ table[m] # NoCall => msg[table[m]] = m /\ pc[table[m]] \in Inside
        /\ tomb[m] # "none" => table[m] = NoCall

PlaceInv == phase # "stopped" => Held /\ Alone /\ Listing

(* The caller was told Unknown because publishRoute said so or before it     *)
(* said anything.                                                            *)
Stray(c) == UnknownPublish /\ result[c] = "Unknown"

(* Nothing protects the message id of the call any longer. *)
Lapsed(c) == Stray(c) \/ entry[c].past \/ phase = "stopped"

(* A call that returned left a tombstone, until its window is over. *)
Traced ==
    \A c \in Calls :
        result[c] \in Outcomes /\ msg[c] # NoMsg => tomb[msg[c]] = "fresh" \/ Lapsed(c)

WasSent(c) == wire[c] = "sent"

(* A message that was refused does not go out. *)
Refused ==
    \A c \in Calls :
        /\ pc[c] = "unknown" => UnknownPublish
        /\ pc[c] = "new" => msg[c] = NoMsg
        /\ pc[c] \in {"new", "valid", "rejected"} => ~WasSent(c)
        /\ result[c] \in {"Invalid", "Rejected", "Conflict"} => ~WasSent(c)
        /\ entry[c].past => result[c] \in Outcomes

(* The callback completes the entry of the call that was answered, or one   *)
(* listed under an id that was no longer protected.                         *)
Matched ==
    /\ dl.entry # NoCall => dl.from = dl.entry \/ Lapsed(dl.from)
    /\ \A c \in Calls : entry[c].answer # NoCall =>
          entry[c].answer = c \/ (entry[c].answer \in Calls /\ Lapsed(entry[c].answer))
    /\ \A c \in Calls : entry[c].outcome \in {"Accepted", "PayloadTooLarge"} =>
          \E d \in Calls : WasSent(d) /\ (d = c \/ Lapsed(d))

OwnInv == Refused /\ Traced /\ Matched

(* An entry keeps its outcome and its answer once it is terminal, and only  *)
(* the callback answers it.                                                 *)
EntryStep ==
    \A c \in Calls :
        /\ terminal(c) => /\ entry'[c].outcome = entry[c].outcome
                          /\ entry'[c].answer = entry[c].answer
        /\ \/ entry'[c].answer = entry[c].answer
           \/ c = dl.entry /\ entry'[c].answer = dl.from
        /\ entry'[c].outcome \in {"Accepted", "PayloadTooLarge"} =>
             entry[c].outcome = entry'[c].outcome \/ c = dl.entry
        /\ entry'[c].outcome = "Accepted" =>
             entry[c].outcome = "Accepted" \/ (c = dl.entry /\ entry'[c].answer = dl.from)
        /\ entry[c].past => entry'[c].past
        /\ entry'[c].past => entry[c].past \/ result[c] \in Outcomes

Same(f, e) ==
    f \in Entry /\ f.outcome = e.outcome /\ f.answer = e.answer /\ f.past = e.past

(* What the parties do to one entry. *)
LEMMA EntryUpdate ==
  ASSUME NEW e \in Entry, NEW d \in Calls
  PROVE  /\ LET f == [e EXCEPT !.accepted = TRUE]
            IN  Same(f, e)
         /\ LET f == [e EXCEPT !.due = TRUE]
            IN  Same(f, e)
         /\ LET f == [e EXCEPT !.aged = TRUE]
            IN  Same(f, e)
         /\ LET f == [e EXCEPT !.past = TRUE]
            IN  /\ f \in Entry /\ f.outcome = e.outcome /\ f.answer = e.answer
                /\ f.past
         /\ /\ TimedOut(e) \in Entry /\ TimedOut(e).outcome \in {"Timeout", "Unknown"}
            /\ TimedOut(e).answer = e.answer /\ TimedOut(e).past = e.past
         /\ LET f == [e EXCEPT !.outcome = "Stopping"]
            IN  f \in Entry /\ f.outcome = "Stopping" /\ f.answer = e.answer /\ f.past = e.past
         /\ LET f == [e EXCEPT !.outcome = "PayloadTooLarge"]
            IN  /\ f \in Entry /\ f.outcome = "PayloadTooLarge"
                /\ f.answer = e.answer /\ f.past = e.past
         /\ LET f == [e EXCEPT !.outcome = "Accepted", !.answer = d]
            IN  f \in Entry /\ f.outcome = "Accepted" /\ f.answer = d /\ f.past = e.past
  BY DEF Entry, Outcomes, TimedOut, Same

(* Every step of every party treats the entries so. *)
LEMMA EntryLemma ==
  ASSUME BaseInv, [Next]_vars
  PROVE  entry' \in [Calls -> Entry] /\ EntryStep
<1>. USE DEF EntryStep, terminal
<1>e. entry \in [Calls -> Entry]
  BY DEF BaseInv, TypeOK
<1>0. ASSUME NEW c \in Calls, NEW f \in Entry, entry' = [entry EXCEPT ![c] = f],
             f.past = entry[c].past,
             entry[c].outcome # "pending" => f.outcome = entry[c].outcome /\ f.answer = entry[c].answer,
             f.answer = entry[c].answer \/ (c = dl.entry /\ f.answer = dl.from),
             f.outcome \in {"Accepted", "PayloadTooLarge"} =>
                entry[c].outcome = f.outcome \/ c = dl.entry,
             f.outcome = "Accepted" =>
                entry[c].outcome = "Accepted" \/ (c = dl.entry /\ f.answer = dl.from)
      PROVE  entry' \in [Calls -> Entry] /\ EntryStep
  BY <1>0, <1>e
<1>1. ASSUME NEW c \in Calls, ExchangeAccepted(c) PROVE entry' \in [Calls -> Entry] /\ EntryStep
  <2>. DEFINE f == [entry[c] EXCEPT !.accepted = TRUE]
  <2>1. Same(f, entry[c])
    BY <1>e, EntryUpdate
  <2>2. entry' = [entry EXCEPT ![c] = f]
    BY <1>1, Zenon DEF ExchangeAccepted
  <2>. HIDE DEF f
  <2>. QED
    BY <1>e, <2>1, <2>2, <1>0 DEF Same
<1>2. ASSUME NEW c \in Calls, ExchangeWakes(c) PROVE entry' \in [Calls -> Entry] /\ EntryStep
  <2>. DEFINE f == TimedOut(entry[c])
  <2>1. /\ f \in Entry /\ f.outcome \in {"Timeout", "Unknown"}
        /\ f.answer = entry[c].answer /\ f.past = entry[c].past
    BY <1>e, EntryUpdate
  <2>2. \/ UNCHANGED entry
        \/ entry[c].outcome = "pending" /\ entry' = [entry EXCEPT ![c] = f]
    BY <1>2, Zenon DEF ExchangeWakes
  <2>. HIDE DEF f
  <2>. QED
    BY <1>e, <2>1, <2>2, <1>0
<1>3. ASSUME NEW c \in Calls, DeadlinePasses(c) PROVE entry' \in [Calls -> Entry] /\ EntryStep
  <2>. DEFINE f == [entry[c] EXCEPT !.due = TRUE]
  <2>1. Same(f, entry[c])
    BY <1>e, EntryUpdate
  <2>2. entry' = [entry EXCEPT ![c] = f]
    BY <1>3, Zenon DEF DeadlinePasses
  <2>. HIDE DEF f
  <2>. QED
    BY <1>e, <2>1, <2>2, <1>0 DEF Same
<1>4. ASSUME NEW c \in Calls, GracePasses(c) PROVE entry' \in [Calls -> Entry] /\ EntryStep
  <2>. DEFINE f == [entry[c] EXCEPT !.aged = TRUE]
  <2>1. Same(f, entry[c])
    BY <1>e, EntryUpdate
  <2>2. entry' = [entry EXCEPT ![c] = f]
    BY <1>4, Zenon DEF GracePasses
  <2>. HIDE DEF f
  <2>. QED
    BY <1>e, <2>1, <2>2, <1>0 DEF Same
<1>5. ASSUME DownlinkCompletes PROVE entry' \in [Calls -> Entry] /\ EntryStep
  <2>. DEFINE c == dl.entry
              f == [entry[c] EXCEPT !.outcome = "PayloadTooLarge"]
              g == [entry[c] EXCEPT !.outcome = "Accepted", !.answer = dl.from]
  <2>1. c \in Calls /\ dl.from \in Calls
    BY <1>5 DEF DownlinkCompletes, BaseInv, Threads
  <2>2. /\ /\ f \in Entry /\ f.outcome = "PayloadTooLarge"
           /\ f.answer = entry[c].answer /\ f.past = entry[c].past
        /\ g \in Entry /\ g.outcome = "Accepted" /\ g.answer = dl.from /\ g.past = entry[c].past
    <3>1. entry[c] \in Entry
      BY <1>e, <2>1
    <3>2. /\ f \in Entry /\ f.outcome = "PayloadTooLarge"
          /\ f.answer = entry[c].answer /\ f.past = entry[c].past
      BY <2>1, <3>1 DEF Entry, Outcomes
    <3>3. g \in Entry /\ g.outcome = "Accepted" /\ g.answer = dl.from /\ g.past = entry[c].past
      BY <2>1, <3>1 DEF Entry, Outcomes
    <3>. QED
      BY <3>2, <3>3
  <2>3. \/ UNCHANGED entry
        \/ entry[c].outcome = "pending" /\ entry' = [entry EXCEPT ![c] = f]
        \/ entry[c].outcome = "pending" /\ entry' = [entry EXCEPT ![c] = g]
    BY <1>5, <2>1 DEF DownlinkCompletes
  <2>. HIDE DEF c, f, g
  <2>4. c = dl.entry
    BY DEF c
  <2>. QED
    BY <1>e, <2>1, <2>2, <2>3, <2>4, <1>0
<1>a. ASSUME NEW S \in SUBSET {c \in Calls : ~terminal(c)}, NEW F \in [Calls -> Entry],
             \A c \in Calls : /\ F[c].outcome \in {"Timeout", "Unknown", "Stopping"}
                              /\ F[c].answer = entry[c].answer /\ F[c].past = entry[c].past,
             entry' = [c \in Calls |-> IF c \in S THEN F[c] ELSE entry[c]]
      PROVE  entry' \in [Calls -> Entry] /\ EntryStep
  <2>1. \A c \in Calls : entry'[c] = IF c \in S THEN F[c] ELSE entry[c]
    BY <1>a, <1>e
  <2>2. entry' \in [Calls -> Entry]
    BY <1>a, <1>e
  <2>3. ASSUME NEW c \in Calls
        PROVE  \/ entry'[c] = entry[c]
               \/ /\ ~terminal(c) /\ entry'[c].outcome \in {"Timeout", "Unknown", "Stopping"}
                  /\ entry'[c].answer = entry[c].answer /\ entry'[c].past = entry[c].past
    BY <1>a, <1>e, <2>1
  <2>4. EntryStep
    BY <2>3
  <2>. QED
    BY <2>2, <2>4
<1>6. ASSUME NEW w \in Workers, Sweep(w) PROVE entry' \in [Calls -> Entry] /\ EntryStep
  <2>. DEFINE F == [c \in Calls |-> TimedOut(entry[c])]
  <2>0. ASSUME NEW c \in Calls
        PROVE  /\ TimedOut(entry[c]) \in Entry
               /\ TimedOut(entry[c]).outcome \in {"Timeout", "Unknown"}
               /\ TimedOut(entry[c]).answer = entry[c].answer
               /\ TimedOut(entry[c]).past = entry[c].past
    BY <1>e, EntryUpdate
  <2>1. /\ F \in [Calls -> Entry]
        /\ \A c \in Calls : /\ F[c].outcome \in {"Timeout", "Unknown"}
                             /\ F[c].answer = entry[c].answer /\ F[c].past = entry[c].past
    BY <2>0
  <2>2. entry' = [c \in Calls |-> IF c \in Expired(w) THEN F[c] ELSE entry[c]]
    BY <1>6 DEF Sweep
  <2>3. Expired(w) \in SUBSET {c \in Calls : ~terminal(c)}
    BY DEF Expired
  <2>. HIDE DEF F
  <2>. QED
    BY <1>a, <2>1, <2>2, <2>3
<1>7. ASSUME StopConverge PROVE entry' \in [Calls -> Entry] /\ EntryStep
  <2>. DEFINE F == [c \in Calls |-> [entry[c] EXCEPT !.outcome = "Stopping"]]
              S == {c \in Calls : ~terminal(c) /\ \E m \in MsgIds : table[m] = c}
  <2>0. ASSUME NEW c \in Calls
        PROVE  LET f == [entry[c] EXCEPT !.outcome = "Stopping"]
               IN  f \in Entry /\ f.outcome = "Stopping" /\ f.answer = entry[c].answer /\ f.past = entry[c].past
    BY <1>e, EntryUpdate
  <2>1. /\ F \in [Calls -> Entry]
        /\ \A c \in Calls : /\ F[c].outcome = "Stopping"
                             /\ F[c].answer = entry[c].answer /\ F[c].past = entry[c].past
    BY <2>0
  <2>2. entry' = [c \in Calls |-> IF c \in S THEN F[c] ELSE entry[c]]
    BY <1>7 DEF StopConverge
  <2>3. S \in SUBSET {c \in Calls : ~terminal(c)}
    OBVIOUS
  <2>. HIDE DEF F, S
  <2>. QED
    BY <1>a, <2>1, <2>2, <2>3
<1>8. ASSUME UNCHANGED entry PROVE entry' \in [Calls -> Entry] /\ EntryStep
  BY <1>8, <1>e
<1>10. ASSUME NEW m \in MsgIds, TombstonePasses(m)
       PROVE  entry' \in [Calls -> Entry] /\ EntryStep
  <2>1. entry' = [c \in Calls |-> IF c \in UsersOf(m) /\ result[c] \in Outcomes
                                 THEN [entry[c] EXCEPT !.past = TRUE] ELSE entry[c]]
    BY <1>10 DEF TombstonePasses
  <2>2. ASSUME NEW c \in Calls
        PROVE  /\ entry'[c] \in Entry
               /\ entry'[c].outcome = entry[c].outcome /\ entry'[c].answer = entry[c].answer
               /\ entry'[c].past = (entry[c].past \/ (c \in UsersOf(m) /\ result[c] \in Outcomes))
    <3>1. entry[c] \in Entry
      BY <1>e
    <3>. QED
      BY <2>1, <3>1 DEF Entry
  <2>. QED
    BY <2>1, <2>2
<1>9. \/ UNCHANGED entry \/ DownlinkCompletes \/ StopConverge
      \/ \E w \in Workers : Sweep(w)
      \/ \E m \in MsgIds : TombstonePasses(m)
      \/ \E c \in Calls : \/ ExchangeAccepted(c) \/ ExchangeWakes(c)
                          \/ DeadlinePasses(c) \/ GracePasses(c)
  BY DEF Next, Exchange, vars, ExchangeDeclined, ExchangeBegin, ExchangeRefused,
         ExchangeList, PublishReturns, ExchangeAbandon, ExchangeReturns, Transmit,
         DownlinkRouted, DownlinkLookup, Start, StopBegin, StopClear
<1>. QED
  BY <1>1, <1>2, <1>3, <1>4, <1>5, <1>6, <1>7, <1>8, <1>9, <1>10

(* No step of any party leaves the domains. *)
LEMMA BaseStep ==
  ASSUME BaseInv, [Next]_vars
  PROVE  BaseInv'
<1>1. ASSUME NEW c \in Calls, ExchangeDeclined(c) PROVE BaseInv'
  BY <1>1 DEF BaseInv, TypeOK, Threads, Inside, terminal, Outcomes, Results, Places,
     ExchangeDeclined, Goto, Returns
<1>2. ASSUME NEW c \in Calls, NEW m \in MsgIds, ExchangeBegin(c, m) PROVE BaseInv'
  BY <1>2 DEF BaseInv, TypeOK, Threads, terminal, Places, ExchangeBegin, Goto
<1>3. ASSUME NEW c \in Calls, ExchangeRefused(c) PROVE BaseInv'
  BY <1>3 DEF BaseInv, TypeOK, Threads, terminal, Results, Places, ExchangeRefused,
     Goto, Returns
<1>4. ASSUME NEW c \in Calls, ExchangeList(c) PROVE BaseInv'
  BY <1>4 DEF BaseInv, TypeOK, Threads, terminal, Places, ExchangeList, Goto
<1>5. ASSUME NEW c \in Calls, PublishReturns(c) PROVE BaseInv'
  BY <1>5 DEF BaseInv, TypeOK, Threads, Inside, terminal, Places, PublishReturns,
     Goto
<1>6. ASSUME NEW c \in Calls, ExchangeAbandon(c) PROVE BaseInv'
  BY <1>6 DEF BaseInv, TypeOK, Threads, Inside, terminal, Outcomes, Results, Places,
     ExchangeAbandon, Goto, Returns
<1>7. ASSUME NEW c \in Calls, ExchangeAccepted(c) PROVE BaseInv'
  BY <1>7, EntryLemma DEF BaseInv, TypeOK, Threads, Inside, terminal, Places,
     ExchangeAccepted, Goto
<1>8. ASSUME NEW c \in Calls, ExchangeWakes(c) PROVE BaseInv'
  <2>1. entry' \in [Calls -> Entry] /\ EntryStep
    BY EntryLemma
  <2>0. entry[c] \in Entry
    BY DEF BaseInv, TypeOK
  <2>2. TimedOut(entry[c]).outcome # "pending"
    BY <2>0, EntryUpdate
  <2>3. entry'[c].outcome # "pending"
    BY <1>8, <2>2 DEF BaseInv, TypeOK, ExchangeWakes, terminal
  <2>4. /\ pc' = [pc EXCEPT ![c] = "woken"] /\ pc[c] = "waiting"
        /\ UNCHANGED <<max_in_flight, phase, msg, table, tomb, wire, dl, result>>
    BY <1>8 DEF ExchangeWakes, Goto
  <2>5. TypeOK'
    BY <2>1, <2>4 DEF BaseInv, TypeOK, Places
  <2>6. ASSUME NEW d \in Calls, d # c
        PROVE  pc'[d] = pc[d] /\ (terminal(d) => terminal(d)')
    <3>1. pc'[d] = pc[d]
      BY <2>4, <2>6 DEF BaseInv, TypeOK
    <3>2. terminal(d) => terminal(d)'
      BY <2>1 DEF EntryStep, terminal
    <3>. QED
      BY <3>1, <3>2
  <2>7. pc'[c] = "woken" /\ terminal(c)'
    BY <2>3, <2>4 DEF BaseInv, TypeOK, terminal
  <2>8. Threads'
    BY <2>4, <2>6, <2>7 DEF BaseInv, Threads, Inside
  <2>. QED
    BY <2>5, <2>8 DEF BaseInv
<1>9. ASSUME NEW c \in Calls, ExchangeReturns(c) PROVE BaseInv'
  BY <1>9 DEF BaseInv, TypeOK, Threads, Inside, terminal, Entry, Outcomes, Results,
     Places, ExchangeReturns, Goto, Returns
<1>10. ASSUME NEW c \in Calls, DeadlinePasses(c) PROVE BaseInv'
  BY <1>10, EntryLemma DEF BaseInv, TypeOK, Threads, terminal, DeadlinePasses
<1>11. ASSUME NEW c \in Calls, GracePasses(c) PROVE BaseInv'
  BY <1>11, EntryLemma DEF BaseInv, TypeOK, Threads, terminal, GracePasses
<1>12. ASSUME NEW c \in Calls, Transmit(c) PROVE BaseInv'
  BY <1>12 DEF BaseInv, TypeOK, Threads, terminal, Transmit
<1>13. ASSUME NEW c \in Calls, DownlinkRouted(c) PROVE BaseInv'
  BY <1>13 DEF BaseInv, TypeOK, Threads, terminal, DownlinkRouted
<1>22. CASE DownlinkLookup
  BY <1>22, GatewayAssumption DEF BaseInv, TypeOK, Threads, terminal, Idle, DownlinkLookup
<1>14. CASE DownlinkCompletes
  <2>1. entry' \in [Calls -> Entry] /\ EntryStep
    BY EntryLemma
  <2>. QED
    BY <1>14, <2>1 DEF BaseInv, TypeOK, Threads, terminal, EntryStep, Idle, DownlinkCompletes
<1>15. ASSUME NEW w \in Workers, Sweep(w) PROVE BaseInv'
  BY <1>15, EntryLemma DEF EntryStep, BaseInv, TypeOK, Threads, terminal, Sweep
<1>16. ASSUME NEW m \in MsgIds, TombstonePasses(m) PROVE BaseInv'
  BY <1>16, EntryLemma DEF BaseInv, TypeOK, Threads, terminal, EntryStep, TombstonePasses
<1>17. CASE Start
  BY <1>17 DEF BaseInv, TypeOK, Phases, Threads, terminal, Start
<1>18. CASE StopBegin
  BY <1>18 DEF BaseInv, TypeOK, Phases, Threads, terminal, StopBegin
<1>19. CASE StopConverge
  BY <1>19, EntryLemma DEF BaseInv, TypeOK, Phases, Threads, terminal, StopConverge
<1>20. CASE StopClear
  BY <1>20 DEF BaseInv, TypeOK, Phases, Threads, terminal, StopClear
<1>21. CASE UNCHANGED vars
  BY <1>21 DEF vars, BaseInv, TypeOK, Threads, terminal
<1>. QED
  BY <1>1, <1>2, <1>3, <1>4, <1>5, <1>6, <1>7, <1>8, <1>9, <1>10, <1>11, <1>12,
     <1>13, <1>14, <1>15, <1>16, <1>17, <1>18, <1>19, <1>20, <1>21, <1>22 DEF Next,
     Exchange

(* THEOREM.  No interleaving of callers, callback, sweepers and stop() takes *)
(* a variable out of its domain; in particular exchange() of                 *)
(* vehicle_message_gateway.cpp never returns an undecided outcome.           *)
THEOREM BaseInvariance == Spec => []BaseInv
<1>1. Init => BaseInv
  BY DEF Init, BaseInv, TypeOK, Threads, Phases, Places, Entry, Outcomes, NewEntry,
         Results, Inside, Idle, terminal
<1>2. BaseInv /\ [Next]_vars => BaseInv'
  BY BaseStep
<1>. QED
  BY <1>1, <1>2, PTL DEF Spec

(* The type invariant of the gateway. *)
THEOREM GatewayTyped == Spec => []TypeOK
  BY BaseInvariance, PTL DEF BaseInv

(* The first of answer, timeout, sweeper and stop() decides an exchange for  *)
(* good, and the caller is told what was decided.                            *)
THEOREM OutcomeStability == Spec => OutcomeStable
<1>1. ASSUME BaseInv, [Next]_vars, NEW c \in Calls
      PROVE  /\ terminal(c) => entry'[c].outcome = entry[c].outcome
             /\ pc[c] = "woken" /\ pc'[c] = "done" => result'[c] = entry[c].outcome
  <2>1. terminal(c) => entry'[c].outcome = entry[c].outcome
    BY <1>1, EntryLemma DEF EntryStep
  <2>2. ASSUME pc[c] = "woken", pc'[c] = "done" PROVE ExchangeReturns(c)
    <3>1. ASSUME NEW d \in Calls, Exchange(d) PROVE ExchangeReturns(c)
      <4>1. pc' = [pc EXCEPT ![d] = pc'[d]]
        BY <1>1, <3>1 DEF BaseInv, TypeOK, Exchange, ExchangeDeclined,
           ExchangeBegin,
           ExchangeRefused, ExchangeList, PublishReturns, ExchangeAbandon,
           ExchangeAccepted, ExchangeWakes, ExchangeReturns, Goto, Returns
      <4>2. d = c
        BY <4>1, <1>1, <2>2 DEF BaseInv, TypeOK
      <4>. QED
        BY <3>1, <4>2, <2>2 DEF Exchange, ExchangeDeclined, ExchangeBegin,
           ExchangeRefused,
           ExchangeList, PublishReturns, ExchangeAbandon, ExchangeAccepted, ExchangeWakes
    <3>2. UNCHANGED pc \/ \E d \in Calls : Exchange(d)
      BY <1>1 DEF Next, vars, DeadlinePasses, GracePasses, Transmit, DownlinkRouted,
         DownlinkLookup, DownlinkCompletes, Sweep, TombstonePasses, Start, StopBegin, StopConverge, StopClear
    <3>. QED
      BY <3>1, <3>2, <2>2
  <2>3. ASSUME pc[c] = "woken", pc'[c] = "done" PROVE result'[c] = entry[c].outcome
    BY <1>1, <2>2, <2>3 DEF BaseInv, TypeOK, ExchangeReturns, Returns
  <2>. QED
    BY <2>1, <2>3
<1>2. BaseInv /\ [Next]_vars =>
        [\A c \in Calls :
            /\ terminal(c) => entry'[c].outcome = entry[c].outcome
            /\ pc[c] = "woken" /\ pc'[c] = "done" => result'[c] = entry[c].outcome]_vars
  BY <1>1
<1>. QED
  BY <1>2, BaseInvariance, PTL DEF Spec, OutcomeStable

(* One call per message id, listed or protected, as long as no tombstone    *)
(* ends before the calls it protects have returned.                         *)
LEMMA PlaceStep ==
  ASSUME ~SlowPublish, BaseInv, PlaceInv, [Next]_vars
  PROVE  PlaceInv'
<1>1. ASSUME NEW c \in Calls, ExchangeDeclined(c) PROVE PlaceInv'
  BY <1>1 DEF PlaceInv, Held, Alone, Listing, BaseInv, TypeOK, Inside, terminal,
     stopping, ExchangeDeclined, Goto, Returns
<1>2. ASSUME NEW c \in Calls, NEW m \in MsgIds, ExchangeBegin(c, m) PROVE PlaceInv'
  BY <1>2 DEF PlaceInv, Held, Alone, Listing, Inside, terminal, ExchangeBegin, Goto
<1>3. ASSUME NEW c \in Calls, ExchangeRefused(c) PROVE PlaceInv'
  BY <1>3 DEF PlaceInv, Held, Alone, Listing, BaseInv, TypeOK, Inside, terminal,
     stopping, ExchangeRefused, Goto, Returns
<1>4. ASSUME NEW c \in Calls, ExchangeList(c) PROVE PlaceInv'
  BY <1>4, BaseStep, GatewayAssumption DEF PlaceInv, Held, Alone, Listing, BaseInv,
     TypeOK, Inside, terminal, stopping, ExchangeList, Goto, identity_conflict
<1>5. ASSUME NEW c \in Calls, PublishReturns(c) PROVE PlaceInv'
  BY <1>5 DEF PlaceInv, Held, Alone, Listing, BaseInv, TypeOK, Inside, terminal,
     stopping, PublishReturns, Goto
<1>6. ASSUME NEW c \in Calls, ExchangeAbandon(c) PROVE PlaceInv'
  BY <1>6 DEF PlaceInv, Held, Alone, Listing, BaseInv, TypeOK, Inside, terminal,
     stopping, ExchangeAbandon, Goto, Returns
<1>7. ASSUME NEW c \in Calls, ExchangeAccepted(c) PROVE PlaceInv'
  BY <1>7 DEF PlaceInv, Held, Alone, Listing, Inside, terminal, stopping,
     ExchangeAccepted, Goto
<1>8. ASSUME NEW c \in Calls, ExchangeWakes(c) PROVE PlaceInv'
  BY <1>8, EntryLemma DEF PlaceInv, Held, Alone, Listing, Inside, terminal,
     stopping, ExchangeWakes, Goto
<1>9. ASSUME NEW c \in Calls, ExchangeReturns(c) PROVE PlaceInv'
  BY <1>9 DEF PlaceInv, Held, Alone, Listing, BaseInv, TypeOK, Inside, terminal,
     stopping, ExchangeReturns, Goto, Returns
<1>10. ASSUME NEW c \in Calls, DeadlinePasses(c) PROVE PlaceInv'
  BY <1>10 DEF PlaceInv, Held, Alone, Listing, terminal, stopping, DeadlinePasses
<1>11. ASSUME NEW c \in Calls, GracePasses(c) PROVE PlaceInv'
  BY <1>11 DEF PlaceInv, Held, Alone, Listing, terminal, stopping, GracePasses
<1>12. ASSUME NEW c \in Calls, Transmit(c) PROVE PlaceInv'
  BY <1>12 DEF PlaceInv, Held, Alone, Listing, terminal, stopping, Transmit
<1>13. ASSUME NEW c \in Calls, DownlinkRouted(c) PROVE PlaceInv'
  BY <1>13 DEF PlaceInv, Held, Alone, Listing, terminal, DownlinkRouted
<1>22. CASE DownlinkLookup
  BY <1>22 DEF PlaceInv, Held, Alone, Listing, terminal, DownlinkLookup
<1>14. CASE DownlinkCompletes
  BY <1>14, EntryLemma DEF PlaceInv, Held, Alone, Listing, BaseInv, TypeOK, terminal,
     EntryStep, DownlinkCompletes
<1>15. ASSUME NEW w \in Workers, Sweep(w) PROVE PlaceInv'
  BY <1>15 DEF PlaceInv, Held, Alone, Listing, BaseInv, Threads, terminal, stopping,
     Sweep, Expired, Evicted
<1>16. ASSUME NEW m \in MsgIds, TombstonePasses(m) PROVE PlaceInv'
  BY <1>16, EntryLemma DEF PlaceInv, Held, Alone, Listing, BaseInv, TypeOK, Threads, Inside,
     terminal, EntryStep, TombstonePasses, UsersOf
<1>17. CASE Start
  BY <1>17 DEF PlaceInv, Held, Alone, Listing, terminal, stopping, Start
<1>18. CASE StopBegin
  BY <1>18 DEF PlaceInv, Held, Alone, Listing, terminal, StopBegin
<1>19. CASE StopConverge
  BY <1>19, EntryLemma DEF PlaceInv, Held, Alone, Listing, terminal, EntryStep, StopConverge
<1>20. CASE StopClear
  BY <1>20 DEF PlaceInv, StopClear
<1>21. CASE UNCHANGED vars
  BY <1>21 DEF vars, PlaceInv, Held, Alone, Listing, BaseInv, TypeOK, Threads,
     Inside, Places, terminal, stopping
<1>. QED
  BY <1>1, <1>2, <1>3, <1>4, <1>5, <1>6, <1>7, <1>8, <1>9, <1>10, <1>11, <1>12,
     <1>13, <1>14, <1>15, <1>16, <1>17, <1>18, <1>19, <1>20, <1>21, <1>22 DEF Next,
     Exchange

(* THEOREM.  If no publishRoute outlasts deadline, grace and tombstone       *)
(* window together, an exchange that still waits is listed under its message *)
(* id: neither another call nor a sweeper can make its answer a late one.    *)
THEOREM WaiterSafety ==
  ASSUME ~SlowPublish
  PROVE  Spec => []WaiterListed
<1>1. Init => PlaceInv
  BY DEF Init, PlaceInv, Held, Alone, Listing, Inside
<1>2. BaseInv /\ PlaceInv /\ [Next]_vars => PlaceInv'
  BY PlaceStep
<1>3. BaseInv /\ PlaceInv => WaiterListed
  BY DEF PlaceInv, Held, WaiterListed, Inside, stopping
<1>. QED
  BY <1>1, <1>2, <1>3, BaseInvariance, PTL DEF Spec

(* What a step may do to the callback, the results and the wire: only the   *)
(* lookup hands the callback an entry, and neither a result, a message that *)
(* went out nor the end of a protection is undone.                          *)
SentStep ==
    /\ dl'.entry = NoCall \/ dl' = dl \/ DownlinkLookup
    /\ phase = "stopped" => phase' = "stopped"
    /\ \A c \in Calls : /\ result[c] # "none" => result'[c] = result[c]
                        /\ WasSent(c) => WasSent(c)'

LEMMA SentLemma ==
  ASSUME BaseInv, [Next]_vars
  PROVE  SentStep
<1>. USE DEF BaseInv, TypeOK, SentStep, WasSent
<1>1. ASSUME NEW c \in Calls, ExchangeDeclined(c) PROVE SentStep
  BY <1>1 DEF Threads, ExchangeDeclined, Returns, Goto
<1>2. ASSUME NEW c \in Calls, ExchangeRefused(c) PROVE SentStep
  BY <1>2 DEF Threads, ExchangeRefused, Returns, Goto
<1>3. ASSUME NEW c \in Calls, ExchangeAbandon(c) PROVE SentStep
  BY <1>3 DEF Threads, ExchangeAbandon, Returns, Goto
<1>4. ASSUME NEW c \in Calls, ExchangeReturns(c) PROVE SentStep
  BY <1>4 DEF Threads, ExchangeReturns, Returns, Goto
<1>5. ASSUME NEW c \in Calls, Transmit(c) PROVE SentStep
  BY <1>5 DEF Transmit
<1>6. CASE DownlinkLookup
  <2>1. UNCHANGED <<phase, result, wire>>
    BY <1>6 DEF DownlinkLookup
  <2>. QED
    BY <1>6, <2>1
<1>7. CASE (\E c \in Calls : DownlinkRouted(c)) \/ DownlinkCompletes
  BY <1>7 DEF DownlinkRouted, DownlinkCompletes, Idle
<1>8. CASE UNCHANGED <<dl, result, wire>> /\ (phase = "stopped" => phase' = "stopped")
  BY <1>8
<1>9. \/ UNCHANGED <<dl, result, wire>> /\ (phase = "stopped" => phase' = "stopped")
      \/ DownlinkLookup \/ DownlinkCompletes
      \/ \E c \in Calls : \/ ExchangeDeclined(c) \/ ExchangeRefused(c)
                          \/ ExchangeAbandon(c) \/ ExchangeReturns(c) \/ Transmit(c)
                          \/ DownlinkRouted(c)
  BY DEF Next, Exchange, vars, ExchangeBegin, ExchangeList, PublishReturns,
         ExchangeAccepted, ExchangeWakes, DeadlinePasses, GracePasses, TombstonePasses,
         Sweep, Start, StopBegin, StopConverge, StopClear
<1>. QED
  BY <1>1, <1>2, <1>3, <1>4, <1>5, <1>6, <1>7, <1>8, <1>9

(* The lookup finds the call whose message was answered, or the id of that   *)
(* message is not protected any longer: the table lists one call per id, and *)
(* none under an id with a tombstone.                                        *)
LEMMA LookupMatches ==
  ASSUME BaseInv, PlaceInv, OwnInv, DownlinkLookup, dl'.entry # NoCall
  PROVE  dl'.from \in Calls /\ (dl'.from = dl'.entry \/ Lapsed(dl'.from))
<1>. DEFINE c == dl.from
            e == table[msg[c]]
<1>1. c \in Calls /\ wire[c] = "sent" /\ msg[c] \in MsgIds
  BY DEF DownlinkLookup, BaseInv, Threads
<1>2. dl'.from = c /\ dl'.entry = e /\ e # NoCall
  BY DEF DownlinkLookup, Idle
<1>3. ASSUME ~Lapsed(c) PROVE c = e
  <2>1. Held /\ Alone /\ Listing
    BY <1>3 DEF PlaceInv, Lapsed
  <2>2. /\ e \in Calls /\ msg[e] = msg[c] /\ pc[e] \in Inside /\ tomb[msg[c]] = "none"
    BY <1>1, <1>2, <2>1 DEF Listing, BaseInv, TypeOK
  <2>3. pc[c] \in Inside
    <3>1. result[c] \notin Outcomes
      BY <1>1, <1>3, <2>2, GatewayAssumption DEF OwnInv, Traced
    <3>2. result[c] \in {"none", "Invalid", "Rejected", "Conflict"} /\ pc[c] \in Places
      BY <1>1, <3>1 DEF BaseInv, TypeOK, Results
    <3>3. result[c] = "none" /\ pc[c] \notin {"new", "valid"}
      BY <1>1, <3>2 DEF OwnInv, Refused, WasSent
    <3>. QED
      BY <1>1, <3>2, <3>3 DEF BaseInv, Threads, Inside, Places
  <2>. QED
    BY <1>1, <2>1, <2>2, <2>3 DEF Alone
<1>. QED
  BY <1>1, <1>2, <1>3

(* Hence an entry is completed by the answer to its own call, or by one that *)
(* comes when the message id is not protected.                               *)
LEMMA MatchedStep ==
  ASSUME BaseInv, PlaceInv, OwnInv, [Next]_vars
  PROVE  Matched'
<1>1. EntryStep /\ SentStep /\ BaseInv'
  BY EntryLemma, SentLemma, BaseStep
<1>2. \A d \in Calls : (Lapsed(d) => Lapsed(d)') /\ (WasSent(d) => WasSent(d)')
  BY <1>1 DEF SentStep, EntryStep, Lapsed, Stray
<1>3. dl.entry # NoCall => /\ dl.from \in Calls /\ dl.entry \in Calls
                           /\ dl.from = dl.entry \/ Lapsed(dl.from)
                           /\ WasSent(dl.from)
  BY DEF OwnInv, Matched, BaseInv, Threads, WasSent
<1>4. dl'.entry # NoCall => dl'.from \in Calls /\ (dl'.from = dl'.entry \/ Lapsed(dl'.from))
  BY <1>1, <1>3, LookupMatches DEF SentStep
<1>5. (dl.entry # NoCall => dl.from = dl.entry \/ Lapsed(dl.from))'
  BY <1>2, <1>4 DEF Lapsed, Stray
<1>6. ASSUME NEW c \in Calls, entry'[c].answer # NoCall
      PROVE  (entry[c].answer = c \/ (entry[c].answer \in Calls /\ Lapsed(entry[c].answer)))'
  <2>1. CASE entry'[c].answer = entry[c].answer
    <3>1. entry[c].answer = c \/ (entry[c].answer \in Calls /\ Lapsed(entry[c].answer))
      BY <1>6, <2>1 DEF OwnInv, Matched
    <3>. QED
      BY <2>1, <3>1, <1>2 DEF Lapsed, Stray
  <2>2. CASE c = dl.entry /\ entry'[c].answer = dl.from
    BY <2>2, <1>2, <1>3, GatewayAssumption DEF Lapsed, Stray
  <2>. QED
    BY <1>1, <2>1, <2>2 DEF EntryStep
<1>7. ASSUME NEW c \in Calls, entry'[c].outcome \in {"Accepted", "PayloadTooLarge"}
      PROVE  \E d \in Calls : WasSent(d)' /\ (d = c \/ Lapsed(d)')
  <2>1. CASE entry[c].outcome \in {"Accepted", "PayloadTooLarge"}
    <3>1. PICK d \in Calls : WasSent(d) /\ (d = c \/ Lapsed(d))
      BY <2>1 DEF OwnInv, Matched
    <3>. QED
      BY <3>1, <1>2
  <2>2. CASE c = dl.entry
    BY <2>2, <1>2, <1>3, GatewayAssumption
  <2>. QED
    BY <1>1, <1>7, <2>1, <2>2 DEF EntryStep
<1>. QED
  BY <1>5, <1>6, <1>7, Zenon DEF Matched

(* No step loses a protection before its time, or lets a refused message out. *)
LEMMA OwnStep ==
  ASSUME ~SlowPublish, BaseInv, PlaceInv, OwnInv, [Next]_vars
  PROVE  OwnInv'
<1>. DEFINE Sound == Refused /\ Traced
<1>0. EntryStep /\ SentStep
  BY EntryLemma, SentLemma
<1>a. \A c \in Calls : Lapsed(c) => Lapsed(c)'
  BY <1>0 DEF SentStep, EntryStep, Lapsed, Stray
<1>b. \A c \in Calls : (entry'[c].past => entry[c].past \/ result[c] \in Outcomes)
  BY <1>0 DEF EntryStep
<1>c. ASSUME UNCHANGED <<result, msg, tomb>> PROVE Traced'
  BY <1>a, <1>c DEF OwnInv, Traced
<1>d. ASSUME UNCHANGED <<pc, result, msg, wire>> PROVE Refused'
  BY <1>b, <1>d DEF OwnInv, Refused, WasSent
<1>1. ASSUME NEW c \in Calls, ExchangeDeclined(c) PROVE Sound'
  <2>1. pc[c] = "new" /\ result[c] = "none" /\ msg[c] = NoMsg
    BY <1>1 DEF ExchangeDeclined, BaseInv, Threads, OwnInv, Refused
  <2>2. Refused'
    BY <1>1, <2>1, <1>b DEF OwnInv, Refused, WasSent, BaseInv, TypeOK, Outcomes,
       ExchangeDeclined, Goto, Returns
  <2>3. Traced'
    BY <1>1, <2>1, <1>a DEF OwnInv, Traced, BaseInv, TypeOK, ExchangeDeclined, Goto, Returns
  <2>. QED
    BY <2>2, <2>3
<1>2. ASSUME NEW c \in Calls, NEW m \in MsgIds, ExchangeBegin(c, m) PROVE Sound'
  <2>1. result[c] = "none"
    BY <1>2 DEF BaseInv, Threads, ExchangeBegin
  <2>. QED
    BY <1>2, <2>1, <1>a DEF OwnInv, Refused, Traced, WasSent, BaseInv, TypeOK, Outcomes,
       ExchangeBegin, Goto
<1>3. ASSUME NEW c \in Calls, ExchangeRefused(c) PROVE Sound'
  BY <1>3, <1>a DEF OwnInv, Refused, Traced, WasSent, BaseInv, TypeOK, Threads, Outcomes,
     ExchangeRefused, Goto, Returns
<1>4. ASSUME NEW c \in Calls, ExchangeList(c) PROVE Sound'
  BY <1>4, <1>c DEF OwnInv, Refused, WasSent, BaseInv, TypeOK, ExchangeList, Goto
<1>5. ASSUME NEW c \in Calls, PublishReturns(c) PROVE Sound'
  BY <1>5, <1>c DEF OwnInv, Refused, WasSent, BaseInv, TypeOK, PublishReturns, Goto
<1>6. ASSUME NEW c \in Calls, ExchangeAbandon(c) PROVE Sound'
  <2>1. Refused'
    BY <1>6 DEF OwnInv, Refused, WasSent, BaseInv, TypeOK, Threads, Outcomes,
       ExchangeAbandon, Goto, Returns
  <2>2. ASSUME NEW d \in Calls, result'[d] \in Outcomes
        PROVE  result[d] = result'[d] \/ Lapsed(d)'
    BY <1>6, <2>2 DEF OwnInv, Refused, Lapsed, Stray, BaseInv, TypeOK, Outcomes,
       ExchangeAbandon, Goto, Returns
  <2>3. UNCHANGED <<msg, tomb>>
    BY <1>6 DEF ExchangeAbandon
  <2>. QED
    BY <2>1, <2>2, <2>3, <1>a DEF OwnInv, Traced
<1>7. ASSUME NEW c \in Calls, ExchangeAccepted(c) PROVE Sound'
  BY <1>7, <1>b, <1>c DEF OwnInv, Refused, WasSent, BaseInv, TypeOK, ExchangeAccepted, Goto
<1>8. ASSUME NEW c \in Calls, ExchangeWakes(c) PROVE Sound'
  BY <1>8, <1>b, <1>c DEF OwnInv, Refused, WasSent, BaseInv, TypeOK, ExchangeWakes, Goto
<1>9. ASSUME NEW c \in Calls, ExchangeReturns(c) PROVE Sound'
  <2>1. /\ pc[c] = "woken" /\ msg[c] \in MsgIds /\ result[c] = "none"
        /\ entry[c].outcome \in Outcomes
    BY <1>9 DEF ExchangeReturns, BaseInv, Threads, TypeOK, Entry, terminal, Inside
  <2>2. /\ pc' = [pc EXCEPT ![c] = "done"] /\ UNCHANGED <<msg, entry, wire>>
        /\ tomb' = [tomb EXCEPT ![msg[c]] = "fresh"]
        /\ result' = [result EXCEPT ![c] = entry[c].outcome]
    BY <1>9 DEF ExchangeReturns, Goto, Returns
  <2>3. Refused'
    BY <2>1, <2>2 DEF OwnInv, Refused, WasSent, BaseInv, TypeOK, Outcomes
  <2>4. \A m \in MsgIds : tomb[m] = "fresh" => tomb'[m] = "fresh"
    BY <2>1, <2>2 DEF BaseInv, TypeOK
  <2>5. tomb'[msg[c]] = "fresh"
    BY <2>1, <2>2 DEF BaseInv, TypeOK
  <2>6. \A d \in Calls : d # c => result'[d] = result[d]
    BY <2>2 DEF BaseInv, TypeOK
  <2>7. \A d \in Calls : msg[d] # NoMsg => msg[d] \in MsgIds
    BY DEF BaseInv, TypeOK
  <2>. QED
    BY <2>2, <2>3, <2>4, <2>5, <2>6, <2>7, <1>a DEF OwnInv, Traced
<1>10. ASSUME NEW c \in Calls, DeadlinePasses(c) PROVE Sound'
  BY <1>10, <1>c, <1>d DEF DeadlinePasses
<1>11. ASSUME NEW c \in Calls, GracePasses(c) PROVE Sound'
  BY <1>11, <1>c, <1>d DEF GracePasses
<1>12. ASSUME NEW c \in Calls, Transmit(c) PROVE Sound'
  BY <1>12, <1>c DEF OwnInv, Refused, WasSent, BaseInv, TypeOK, Outcomes, Transmit
<1>13. ASSUME NEW c \in Calls, DownlinkRouted(c) PROVE Sound'
  BY <1>13, <1>c, <1>d DEF DownlinkRouted
<1>14. CASE DownlinkLookup \/ DownlinkCompletes
  BY <1>14, <1>c, <1>d, MatchedStep DEF OwnInv, DownlinkLookup, DownlinkCompletes
<1>15. ASSUME NEW w \in Workers, Sweep(w) PROVE Sound'
  <2>1. Refused' /\ UNCHANGED <<result, msg>>
    BY <1>15, <1>d DEF Sweep
  <2>2. \A m \in MsgIds : tomb[m] = "fresh" => tomb'[m] = "fresh"
    BY <1>15 DEF Sweep
  <2>. QED
    BY <2>1, <2>2, <1>a DEF OwnInv, Traced, BaseInv, TypeOK
<1>16. ASSUME NEW m \in MsgIds, TombstonePasses(m) PROVE Sound'
  <2>1. Refused' /\ UNCHANGED <<result, msg>>
    BY <1>16, <1>d DEF TombstonePasses
  <2>2. tomb' = [tomb EXCEPT ![m] = "due"]
    BY <1>16 DEF TombstonePasses
  <2>3. ASSUME NEW c \in Calls, msg[c] = m, result[c] \in Outcomes PROVE Lapsed(c)'
    <3>1. entry'[c] = [entry[c] EXCEPT !.past = TRUE]
      BY <1>16, <2>3 DEF TombstonePasses, UsersOf
    <3>. QED
      BY <3>1 DEF Lapsed, BaseInv, TypeOK, Entry
  <2>. QED
    BY <2>1, <2>2, <2>3, <1>a DEF OwnInv, Traced, BaseInv, TypeOK
<1>17. CASE Start \/ StopBegin \/ StopConverge
  BY <1>17, <1>c, <1>d, MatchedStep DEF OwnInv, Start, StopBegin, StopConverge
<1>18. CASE StopClear
  BY <1>18, <1>d, MatchedStep DEF OwnInv, StopClear, Traced, Lapsed
<1>19. CASE UNCHANGED vars
  BY <1>19, <1>c, <1>d, MatchedStep DEF OwnInv, vars
<1>. QED
  BY MatchedStep, <1>1, <1>2, <1>3, <1>4, <1>5, <1>6, <1>7, <1>8, <1>9, <1>10, <1>11,
     <1>12, <1>13, <1>14, <1>15, <1>16, <1>17, <1>18, <1>19 DEF Next, Exchange, OwnInv

LEMMA OwnInvariance ==
  ASSUME ~SlowPublish
  PROVE  Spec => [](BaseInv /\ PlaceInv /\ OwnInv)
<1>1. Init => PlaceInv /\ OwnInv
  BY DEF Init, PlaceInv, Held, Alone, Listing, Inside, OwnInv, Refused, Traced,
     Matched, Lapsed, Stray, WasSent, Idle, NewEntry, Outcomes
<1>2. BaseInv /\ PlaceInv /\ OwnInv /\ [Next]_vars => PlaceInv' /\ OwnInv'
  BY PlaceStep, OwnStep
<1>. QED
  BY <1>1, <1>2, BaseInvariance, PTL DEF Spec

(* THEOREM.  As long as publishRoute does not outlast the tombstone window,  *)
(* a message id is protected until the window of its tombstone is over: an   *)
(* answer that comes before that completes the call it belongs to or none,   *)
(* unless its caller was told Unknown.  Answers themselves may come at any   *)
(* time.                                                                     *)
THEOREM AnswerSafety ==
  ASSUME ~SlowPublish
  PROVE  Spec => []AnsweredByOwn
<1>1. OwnInv => AnsweredByOwn
  BY DEF OwnInv, Matched, Lapsed, Stray, AnsweredByOwn, MayComplete
<1>. QED
  BY <1>1, OwnInvariance, PTL

(* No answer is under way that comes after the window of the tombstone of    *)
(* its call, or after stop() has cleared the tombstones.                     *)
AnswerInTime == dl # Idle => ~entry[dl.from].past /\ phase # "stopped"

(* An exchange got the answer to its own message. *)
Own == \A c \in Calls : entry[c].answer # NoCall => entry[c].answer = c
ResultInv == \A c \in Calls : result[c] = "Accepted" => entry[c].outcome = "Accepted"
AnswerInv == \A c \in Calls : entry[c].outcome = "Accepted" => entry[c].answer # NoCall

LEMMA OwnKept ==
  ASSUME ~UnknownPublish, BaseInv, OwnInv, AnswerInTime, Own, ResultInv, AnswerInv, [Next]_vars
  PROVE  Own' /\ ResultInv' /\ AnswerInv'
<1>1. EntryStep /\ BaseInv'
  BY EntryLemma, BaseStep
<1>2. dl.entry # NoCall => dl.from = dl.entry
  BY DEF AnswerInTime, OwnInv, Matched, Lapsed, Stray, BaseInv, Threads
<1>3. Own'
  BY <1>1, <1>2, GatewayAssumption DEF EntryStep, Own
<1>4. ResultInv'
  <2>1. ASSUME NEW c \in Calls, result'[c] = "Accepted"
        PROVE  result[c] = "Accepted" \/ entry[c].outcome = "Accepted"
    <3>1. ASSUME NEW d \in Calls, Exchange(d)
          PROVE  result[c] = "Accepted" \/ entry[c].outcome = "Accepted"
      BY <2>1, <3>1 DEF BaseInv, TypeOK, Exchange, ExchangeDeclined, ExchangeBegin, ExchangeRefused,
         ExchangeList, PublishReturns, ExchangeAbandon, ExchangeAccepted, ExchangeWakes,
         ExchangeReturns, Returns, Goto
    <3>2. UNCHANGED result \/ \E d \in Calls : Exchange(d)
      BY DEF Next, vars, DeadlinePasses, GracePasses, Transmit, DownlinkRouted,
         DownlinkLookup, DownlinkCompletes, Sweep, TombstonePasses, Start, StopBegin,
         StopConverge, StopClear
    <3>. QED
      BY <2>1, <3>1, <3>2
  <2>. QED
    BY <1>1, <2>1 DEF EntryStep, terminal, ResultInv
<1>5. AnswerInv'
  BY <1>1, GatewayAssumption DEF EntryStep, AnswerInv, terminal, BaseInv, Threads
<1>. QED
  BY <1>3, <1>4, <1>5

(* THEOREM.  What handle_routed_downlink claims holds if three things do: a  *)
(* publishRoute that reports no acceptance has not sent, none outlasts the   *)
(* tombstone window, and no answer outlasts it or comes after stop().  Then  *)
(* an Accepted exchange got the answer to its own message.  The code bounds  *)
(* none of the three; gateway_reuse shows what happens without the first.    *)
THEOREM LateAnswerSafety ==
  ASSUME ~SlowPublish, ~UnknownPublish
  PROVE  Spec /\ []AnswerInTime => []LateAnswerIgnored
<1>1. Init => Own /\ ResultInv /\ AnswerInv
  BY DEF Init, Own, ResultInv, AnswerInv, NewEntry
<1>2. BaseInv /\ OwnInv /\ AnswerInTime /\ Own /\ ResultInv /\ AnswerInv /\ [Next]_vars
        => Own' /\ ResultInv' /\ AnswerInv'
  BY OwnKept
<1>3. Own /\ ResultInv /\ AnswerInv => LateAnswerIgnored
  BY DEF Own, ResultInv, AnswerInv, LateAnswerIgnored
<1>. QED
  BY <1>1, <1>2, <1>3, OwnInvariance, PTL DEF Spec

-----------------------------------------------------------------------------
(* The refinement.  Seen by its caller, a call changes by its own thread, by *)
(* its message going out, or by somebody deciding its entry.                 *)

(* The status of a call and its outcome, by where its thread is. *)
StatusFacts(c) ==
    /\ StatusOf(c) = "idle" <=> pc[c] = "new"
    /\ StatusOf(c) = "refused" <=>
         pc[c] = "done" /\ (msg[c] = NoMsg \/ result[c] \notin Outcomes)
    /\ StatusOf(c) = "returned" <=>
         pc[c] = "done" /\ msg[c] # NoMsg /\ result[c] \in Outcomes
    /\ StatusOf(c) = "decided" <=>
         pc[c] \in {"accepted", "waiting", "woken"} /\ terminal(c)
    /\ StatusOf(c) \in {"idle", "refused", "returned", "decided", "open"}
    /\ OutcomeOf(c) = IF StatusOf(c) = "decided" THEN entry[c].outcome
                      ELSE IF StatusOf(c) = "returned" THEN result[c] ELSE "none"

LEMMA StatusLemma ==
  ASSUME NEW c \in Calls
  PROVE  StatusFacts(c) /\ StatusFacts(c)'
<1>1. StatusFacts(c)
  BY DEF StatusOf, OutcomeOf, StatusFacts
<1>2. StatusFacts(c)'
  BY DEF StatusOf, OutcomeOf, StatusFacts
<1>. QED
  BY <1>1, <1>2

(* A call's step, given how its own state changes. *)
LEMMA ViewLemma ==
  ASSUME BaseInv, [Next]_vars, NEW c \in Calls
  PROVE  \/ Exchange(c) /\ UNCHANGED wire
         \/ Transmit(c)
         \/ pc'[c] = pc[c] /\ msg'[c] = msg[c] /\ result'[c] = result[c]
            /\ (WasSent(c)' <=> WasSent(c))
<1>. DEFINE Rest == pc'[c] = pc[c] /\ msg'[c] = msg[c] /\ result'[c] = result[c]
                    /\ (WasSent(c)' <=> WasSent(c))
<1>1. ASSUME NEW d \in Calls, Exchange(d) PROVE UNCHANGED wire
  BY <1>1 DEF Exchange, ExchangeDeclined, ExchangeBegin, ExchangeRefused, ExchangeList,
     PublishReturns, ExchangeAbandon, ExchangeAccepted, ExchangeWakes, ExchangeReturns
<1>2. ASSUME NEW d \in Calls, d # c, Exchange(d) PROVE Rest
  BY <1>1, <1>2 DEF BaseInv, TypeOK, WasSent, Exchange, ExchangeDeclined, ExchangeBegin,
     ExchangeRefused, ExchangeList, PublishReturns, ExchangeAbandon, ExchangeAccepted,
     ExchangeWakes, ExchangeReturns, Goto, Returns
<1>3. ASSUME NEW d \in Calls, d # c, Transmit(d) PROVE Rest
  BY <1>3 DEF BaseInv, TypeOK, WasSent, Transmit
<1>5. ASSUME UNCHANGED <<pc, msg, wire, result>> PROVE Rest
  BY <1>5 DEF WasSent
<1>6. \/ UNCHANGED <<pc, msg, wire, result>>
      \/ \E d \in Calls : Exchange(d) \/ Transmit(d)
  BY DEF Next, vars, DeadlinePasses, GracePasses, TombstonePasses, DownlinkRouted,
     DownlinkLookup, DownlinkCompletes, Sweep, Start, StopBegin, StopConverge, StopClear
<1>. QED
  BY <1>1, <1>2, <1>3, <1>5, <1>6

(* A reported answer needs a message that went out. *)
LEMMA AnswerableLemma ==
  ASSUME BaseInv, OwnInv, [Next]_vars, NEW c \in Calls,
         entry'[c].outcome \in {"Accepted", "PayloadTooLarge"}
  PROVE  Exchanges!Answerable(c)
<1>1. PICK d \in Calls : WasSent(d) /\ (d = c \/ Lapsed(d))
  <2>1. CASE entry[c].outcome \in {"Accepted", "PayloadTooLarge"}
    BY <2>1 DEF OwnInv, Matched
  <2>2. CASE c = dl.entry
    BY <2>2, GatewayAssumption DEF OwnInv, Matched, BaseInv, Threads, WasSent
  <2>. QED
    BY <2>1, <2>2, EntryLemma DEF EntryStep
<1>2. ASSUME Lapsed(d), phase # "stopped" PROVE StatusOf(d) = "returned"
  <2>1. result[d] \in Outcomes
    BY <1>2 DEF Lapsed, Stray, Outcomes, OwnInv, Refused
  <2>2. pc[d] = "done" /\ msg[d] # NoMsg
    BY <1>1, <2>1, GatewayAssumption DEF WasSent, BaseInv, Threads, Outcomes
  <2>. QED
    BY <2>1, <2>2, StatusLemma DEF StatusFacts
<1>. QED
  BY <1>1, <1>2 DEF Exchanges!Answerable, WasSent

(* The steps of MessageExchange, in the terms of the gateway. *)
LEMMA AbstractSteps ==
  ASSUME NEW c \in Calls
  PROVE  LET S == StatusOf(c)  T == StatusOf(c)'
             SameOutcome == OutcomeOf(c)' = OutcomeOf(c)
             SameSent == WasSent(c)' <=> WasSent(c)
         IN  /\ S = "idle" /\ T = "open" /\ SameOutcome /\ SameSent
                => Exchanges!CallStep(c)
             /\ S \in {"idle", "open"} /\ ~WasSent(c) /\ T = "refused" /\ SameOutcome /\ SameSent
                => Exchanges!CallStep(c)
             /\ S \in {"open", "decided", "returned"} /\ ~WasSent(c) /\ WasSent(c)'
                /\ T = S /\ SameOutcome => Exchanges!CallStep(c)
             /\ S = "open" /\ T = "decided" /\ OutcomeOf(c)' \in Outcomes /\ SameSent
                /\ (OutcomeOf(c)' \in {"Accepted", "PayloadTooLarge"} => Exchanges!Answerable(c))
                => Exchanges!CallStep(c)
             /\ S = "open" /\ T = "returned" /\ OutcomeOf(c)' = "Unknown" /\ SameSent
                => Exchanges!CallStep(c)
             /\ S = "decided" /\ T = "returned" /\ SameOutcome /\ SameSent
                => Exchanges!CallStep(c)
             /\ T = S /\ SameOutcome /\ SameSent => Exchanges!CallStep(c)
  BY DEF Exchanges!CallStep, Exchanges!Opens, Exchanges!Refuses, Exchanges!Sends,
     Exchanges!Decides, Exchanges!Abandons, Exchanges!Returns, Exchanges!Rests,
     Exchanges!KeepsStatus, Exchanges!KeepsOutcome, Exchanges!KeepsSent,
     Exchanges!Verdicts, Exchanges!Answers, Outcomes, WasSent

(* Every step of the gateway is a step of every call. *)
LEMMA CallLemma ==
  ASSUME BaseInv, OwnInv, [Next]_vars, NEW c \in Calls
  PROVE  Exchanges!CallStep(c)
<1>1. /\ BaseInv' /\ EntryStep
      /\ entry[c].outcome \in Outcomes \cup {"pending"}
      /\ entry'[c].outcome \in Outcomes \cup {"pending"}
  BY BaseStep, EntryLemma DEF BaseInv, TypeOK, Entry
<1>2. /\ pc[c] \in Inside \cup {"valid"} => msg[c] # NoMsg
      /\ pc[c] = "new" => msg[c] = NoMsg
      /\ pc[c] \in {"new", "valid", "rejected"} => ~WasSent(c)
      /\ pc[c] = "woken" => terminal(c)
  BY GatewayAssumption DEF BaseInv, Threads, OwnInv, Refused, WasSent
<1>. DEFINE Views == StatusFacts(c) /\ StatusFacts(c)'
<1>3. Views
  BY StatusLemma
<1>4. entry'[c].outcome \in {"Accepted", "PayloadTooLarge"} => Exchanges!Answerable(c)
  BY AnswerableLemma
<1>5. CASE Exchange(c) /\ UNCHANGED wire
  <2>1. WasSent(c)' <=> WasSent(c)
    BY <1>5 DEF WasSent
  <2>2. CASE ExchangeDeclined(c)
    <3>1. pc[c] = "new" /\ pc'[c] = "done" /\ msg'[c] = NoMsg
      BY <2>2, <1>2 DEF BaseInv, TypeOK, ExchangeDeclined, Returns, Goto
    <3>. QED
      BY <1>2, <1>3, <2>1, <3>1, AbstractSteps DEF StatusFacts
  <2>3. CASE \E m \in MsgIds : ExchangeBegin(c, m)
    <3>1. pc[c] = "new" /\ pc'[c] = "valid"
      BY <2>3 DEF BaseInv, TypeOK, ExchangeBegin, Goto
    <3>. QED
      BY <1>3, <2>1, <3>1, AbstractSteps DEF StatusFacts
  <2>4. CASE ExchangeRefused(c)
    <3>1. pc[c] = "valid" /\ pc'[c] = "done" /\ result'[c] \notin Outcomes
      BY <2>4 DEF BaseInv, TypeOK, ExchangeRefused, Returns, Goto, Outcomes
    <3>. QED
      BY <1>2, <1>3, <2>1, <3>1, AbstractSteps DEF StatusFacts
  <2>5. CASE ExchangeList(c)
    <3>1. pc[c] = "valid" /\ pc'[c] = "publishing"
      BY <2>5 DEF BaseInv, TypeOK, ExchangeList, Goto
    <3>. QED
      BY <1>3, <2>1, <3>1, AbstractSteps DEF StatusFacts
  <2>6. CASE PublishReturns(c)
    <3>1. /\ pc[c] = "publishing" /\ pc'[c] \in {"accepted", "rejected", "unknown"}
          /\ entry' = entry
      BY <2>6 DEF BaseInv, TypeOK, PublishReturns, Goto
    <3>2. CASE pc'[c] = "accepted" /\ terminal(c)'
      BY <1>1, <1>3, <1>4, <2>1, <3>1, <3>2, AbstractSteps DEF StatusFacts, terminal
    <3>3. CASE ~(pc'[c] = "accepted" /\ terminal(c)')
      BY <1>3, <2>1, <3>1, <3>3, AbstractSteps DEF StatusFacts
    <3>. QED
      BY <3>2, <3>3
  <2>7. CASE ExchangeAbandon(c)
    <3>1. /\ pc[c] \in {"rejected", "unknown"} /\ pc'[c] = "done" /\ msg'[c] = msg[c]
          /\ result'[c] = IF pc[c] = "rejected" THEN "Rejected" ELSE "Unknown"
      BY <2>7 DEF BaseInv, TypeOK, ExchangeAbandon, Returns, Goto
    <3>2. CASE pc[c] = "rejected"
      BY <1>2, <1>3, <2>1, <3>1, <3>2, AbstractSteps DEF StatusFacts, Outcomes
    <3>3. CASE pc[c] = "unknown"
      BY <1>2, <1>3, <2>1, <3>1, <3>3, AbstractSteps DEF StatusFacts, Outcomes, Inside
    <3>. QED
      BY <3>1, <3>2, <3>3
  <2>8. CASE ExchangeAccepted(c)
    <3>1. pc[c] = "accepted" /\ pc'[c] = "waiting" /\ entry'[c].outcome = entry[c].outcome
      BY <2>8 DEF BaseInv, TypeOK, Entry, ExchangeAccepted, Goto
    <3>. QED
      BY <1>3, <2>1, <3>1, AbstractSteps DEF StatusFacts, terminal
  <2>9. CASE ExchangeWakes(c)
    <3>1. pc[c] = "waiting" /\ pc'[c] = "woken"
      BY <2>9 DEF BaseInv, TypeOK, ExchangeWakes, Goto
    <3>. terminal(c)'
      BY <1>1, <3>1 DEF BaseInv, Threads
    <3>2. CASE terminal(c)
      BY <1>1, <1>3, <2>1, <3>1, <3>2, AbstractSteps DEF StatusFacts, EntryStep
    <3>3. CASE ~terminal(c)
      BY <1>1, <1>3, <1>4, <2>1, <3>1, <3>3, AbstractSteps DEF StatusFacts, terminal
    <3>. QED
      BY <3>2, <3>3
  <2>10. CASE ExchangeReturns(c)
    <3>1. /\ pc[c] = "woken" /\ pc'[c] = "done" /\ msg'[c] = msg[c]
          /\ result'[c] = entry[c].outcome
      BY <2>10 DEF BaseInv, TypeOK, ExchangeReturns, Returns, Goto
    <3>. QED
      BY <1>1, <1>2, <1>3, <2>1, <3>1, AbstractSteps DEF StatusFacts, Inside, terminal
  <2>. QED
    BY <1>5, <2>2, <2>3, <2>4, <2>5, <2>6, <2>7, <2>8, <2>9, <2>10 DEF Exchange
<1>6. CASE Transmit(c)
  <2>1. /\ pc'[c] = pc[c] /\ msg'[c] = msg[c] /\ result'[c] = result[c] /\ entry' = entry
        /\ pc[c] \notin {"new", "valid"} /\ msg[c] # NoMsg
        /\ result[c] \in {"none"} \cup Outcomes
        /\ ~WasSent(c) /\ WasSent(c)'
    BY <1>6 DEF BaseInv, TypeOK, Transmit, WasSent
  <2>2. pc[c] = "done" => result[c] # "none"
    BY DEF BaseInv, Threads
  <2>. QED
    BY <1>3, <2>1, <2>2, AbstractSteps DEF StatusFacts, terminal
<1>7. CASE /\ pc'[c] = pc[c] /\ msg'[c] = msg[c] /\ result'[c] = result[c]
           /\ (WasSent(c)' <=> WasSent(c))
  <2>1. CASE terminal(c) \/ pc[c] \notin {"accepted", "waiting", "woken"} \/ ~terminal(c)'
    BY <1>1, <1>3, <1>7, <2>1, AbstractSteps DEF StatusFacts, EntryStep, terminal
  <2>2. CASE ~terminal(c) /\ pc[c] \in {"accepted", "waiting", "woken"} /\ terminal(c)'
    BY <1>1, <1>3, <1>4, <1>7, <2>2, AbstractSteps DEF StatusFacts, terminal
  <2>. QED
    BY <2>1, <2>2
<1>. QED
  BY <1>5, <1>6, <1>7, ViewLemma

(* THEOREM.  The gateway implements MessageExchange, as long as publishRoute *)
(* does not outlast the tombstone window: whatever threads, callback,        *)
(* sweepers and stop() do to a call, its caller sees it refused before the   *)
(* message goes out, or decided once and returned as decided, as answered    *)
(* only by an answer to its own message or to a call that had returned.      *)
THEOREM Refinement ==
  ASSUME ~SlowPublish
  PROVE  Spec => ImplementsExchange
<1>1. Init => Exchanges!AbstractInit
  BY DEF Init, Exchanges!AbstractInit, StatusOf, OutcomeOf
<1>2. BaseInv /\ OwnInv /\ [Next]_vars => [Exchanges!AbstractNext]_(Exchanges!abstractVars)
  <2>1. ASSUME BaseInv, OwnInv, [Next]_vars PROVE Exchanges!AbstractNext
    <3>1. phase = "stopped" => phase' = "stopped"
      BY <2>1 DEF Next, vars, Exchange, ExchangeDeclined, ExchangeBegin, ExchangeRefused,
         ExchangeList, PublishReturns, ExchangeAbandon, ExchangeAccepted, ExchangeWakes,
         ExchangeReturns, DeadlinePasses, GracePasses, Transmit, TombstonePasses,
         DownlinkRouted, DownlinkLookup, DownlinkCompletes, Sweep, Start, StopBegin,
         StopConverge, StopClear
    <3>2. \A c \in Calls : Exchanges!CallStep(c)
      BY <2>1, CallLemma
    <3>. QED
      BY <3>1, <3>2 DEF Exchanges!AbstractNext
  <2>. QED
    BY <2>1
<1>. QED
  BY <1>1, <1>2, OwnInvariance, PTL DEF Spec, ImplementsExchange, Exchanges!AbstractSpec

=============================================================================

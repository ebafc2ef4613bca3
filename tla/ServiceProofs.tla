---------------------------- MODULE ServiceProofs ----------------------------
(***************************************************************************)
(* Proofs, for every set of orders and of stoppers and every bound, that   *)
(* the service of module Service keeps ServiceInv, what follows from it,   *)
(* and that its steps are the steps ServicePromise allows.                 *)
(*                                                                         *)
(* Each conjunct of ServiceInv has a lemma with one step per action; the   *)
(* two channel arguments - a wake-up once sent stays in the channel until  *)
(* heard, and the first stop sent stays the first stop in it - rest on the *)
(* lemmas on sequences that come first.                                    *)
(***************************************************************************)
EXTENDS Service, SequenceTheorems, TLAPS

------------------------------------------------------------------------------
(* A message more in a sequence is an element more.                        *)
LEMMA ElementsAppend ==
    ASSUME NEW S, NEW s \in Seq(S), NEW e \in S
    PROVE  Elements(Append(s, e)) = Elements(s) \cup {e}
<1>1. /\ DOMAIN s = 1..Len(s) /\ Len(s) \in Nat
      /\ DOMAIN Append(s, e) = 1..(Len(s) + 1)
      /\ Append(s, e)[Len(s) + 1] = e
      /\ \A i \in 1..Len(s) : Append(s, e)[i] = s[i]
  OBVIOUS
<1>2. ASSUME NEW i \in 1..(Len(s) + 1) PROVE i = Len(s) + 1 \/ i \in 1..Len(s)
  BY <1>1
<1>3. \A i \in 1..Len(s) : i \in 1..(Len(s) + 1)
  BY <1>1
<1>4. Len(s) + 1 \in 1..(Len(s) + 1)
  BY <1>1
<1> QED
  BY <1>1, <1>2, <1>3, <1>4 DEF Elements

(* What a sequence holds is its head and what its tail holds.              *)
LEMMA ElementsTail ==
    ASSUME NEW S, NEW s \in Seq(S), s # <<>>
    PROVE  Elements(s) = {Head(s)} \cup Elements(Tail(s))
<1>1. /\ Len(s) \in Nat /\ Len(s) > 0 /\ DOMAIN s = 1..Len(s)
      /\ Tail(s) \in Seq(S) /\ Len(Tail(s)) = Len(s) - 1
      /\ DOMAIN Tail(s) = 1..(Len(s) - 1) /\ Head(s) = s[1]
      /\ \A i \in 1..(Len(s) - 1) : Tail(s)[i] = s[i + 1]
  OBVIOUS
<1>2. ASSUME NEW i \in DOMAIN s
      PROVE  s[i] = Head(s) \/ \E j \in DOMAIN Tail(s) : Tail(s)[j] = s[i]
  <2>1. CASE i = 1
    BY <1>1, <2>1
  <2>2. CASE i # 1
    <3>1. i - 1 \in 1..(Len(s) - 1) /\ Tail(s)[i - 1] = s[(i - 1) + 1]
      BY <1>1, <2>2
    <3>2. (i - 1) + 1 = i
      BY <1>1
    <3> QED
      BY <1>1, <3>1, <3>2
  <2> QED
    BY <2>1, <2>2
<1>3. ASSUME NEW j \in DOMAIN Tail(s)
      PROVE  \E i \in DOMAIN s : s[i] = Tail(s)[j]
  BY <1>1
<1> QED
  BY <1>1, <1>2, <1>3 DEF Elements

(* A message sent is in the channel with the ones before it.               *)
LEMMA ToldAppend ==
    ASSUME TypeOK, NEW m \in Told, told' = Append(told, m)
    PROVE  Elements(told') = Elements(told) \cup {m}
<1>1. told \in Seq(Told)
  BY DEF TypeOK, ChannelTypes
<1>2. Elements(Append(told, m)) = Elements(told) \cup {m}
  BY <1>1, ElementsAppend
<1> QED
  BY <1>2

(* A message heard leaves the others in the channel.                       *)
LEMMA ToldTail ==
    ASSUME TypeOK, told # <<>>, told' = Tail(told)
    PROVE  Elements(told) = {Head(told)} \cup Elements(told')
<1>1. told \in Seq(Told)
  BY DEF TypeOK, ChannelTypes
<1>2. Elements(told) = {Head(told)} \cup Elements(Tail(told))
  BY <1>1, ElementsTail
<1> QED
  BY <1>2

(* The head of the second sequence may as well end the first.              *)
LEMMA ConcatShift ==
    ASSUME NEW S, NEW s \in Seq(S), NEW t \in Seq(S), t # <<>>
    PROVE  Append(s, Head(t)) \o Tail(t) = s \o t
OBVIOUS

(* What is appended to the second sequence ends the two.                   *)
LEMMA ConcatAppend ==
    ASSUME NEW S, NEW s \in Seq(S), NEW t \in Seq(S), NEW e \in S
    PROVE  s \o Append(t, e) = Append(s \o t, e)
OBVIOUS

(* What the service is told besides a stop moves no stop.                  *)
LEMMA OtherTold ==
    ASSUME TypeOK, StopInv, NEW m \in {"Orders", "Acted"},
           told' = Append(told, m), UNCHANGED <<pc, stops, by>>
    PROVE  StopInv'
<1> USE ServiceAssumption
<1>1. told \in Seq(Told) /\ m \notin Stopper
  BY DEF TypeOK, ChannelTypes
<1>2. /\ DOMAIN told = 1..Len(told) /\ Len(told) \in Nat
      /\ DOMAIN told' = 1..(Len(told) + 1)
      /\ told'[Len(told) + 1] = m
      /\ \A i \in 1..Len(told) : told'[i] = told[i]
  BY <1>1
<1>3. ASSUME by = "nobody", stops = <<>>, NEW i \in DOMAIN told'
      PROVE  told'[i] \notin Stopper
  <2>1. CASE i = Len(told) + 1
    BY <2>1, <1>1, <1>2
  <2>2. CASE i # Len(told) + 1
    <3>1. i \in 1..Len(told)
      BY <2>2, <1>2
    <3> QED
      BY <3>1, <1>2, <1>3 DEF StopInv
  <2> QED
    BY <2>1, <2>2
<1>4. ASSUME by = "nobody", stops # <<>>
      PROVE  \E i \in DOMAIN told' :
                /\ told'[i] = stops[1]
                /\ \A j \in 1..(i - 1) : told'[j] \notin Stopper
  <2>1. PICK i \in DOMAIN told : /\ told[i] = stops[1]
                                /\ \A j \in 1..(i - 1) : told[j] \notin Stopper
    BY <1>4 DEF StopInv
  <2>2. i \in DOMAIN told' /\ told'[i] = stops[1]
    BY <2>1, <1>2
  <2>3. ASSUME NEW j \in 1..(i - 1) PROVE told'[j] \notin Stopper
    <3>1. j \in 1..Len(told)
      BY <2>1, <1>2
    <3> QED
      BY <3>1, <2>1, <1>2
  <2> QED
    BY <2>2, <2>3
<1> QED
  BY <1>3, <1>4 DEF StopInv

(* A stop sent is the first only where none was sent before it.            *)
LEMMA StopTold ==
    ASSUME TypeOK, StopInv, NEW s \in Stopper,
           told' = Append(told, s), stops' = Append(stops, s),
           UNCHANGED <<pc, by>>
    PROVE  StopInv'
<1> USE ServiceAssumption
<1>1. told \in Seq(Told) /\ s \in Told /\ stops \in Seq(Stopper)
  BY DEF TypeOK, ChannelTypes, Told
<1>2. /\ DOMAIN told = 1..Len(told) /\ Len(told) \in Nat
      /\ DOMAIN told' = 1..(Len(told) + 1)
      /\ told'[Len(told) + 1] = s
      /\ \A i \in 1..Len(told) : told'[i] = told[i]
  BY <1>1
<1>3. /\ stops' # <<>>
      /\ stops = <<>> => stops'[1] = s
      /\ stops # <<>> => stops'[1] = stops[1]
  BY <1>1
<1>4. ASSUME by = "nobody"
      PROVE  \E i \in DOMAIN told' :
                /\ told'[i] = stops'[1]
                /\ \A j \in 1..(i - 1) : told'[j] \notin Stopper
  <2>1. CASE stops = <<>>
    <3>1. \A i \in 1..Len(told) : told'[i] \notin Stopper
      BY <1>2, <1>4, <2>1 DEF StopInv
    <3>2. Len(told) + 1 \in DOMAIN told' /\ (Len(told) + 1) - 1 = Len(told)
      BY <1>2
    <3> QED
      BY <3>1, <3>2, <2>1, <1>2, <1>3
  <2>2. CASE stops # <<>>
    <3>1. PICK i \in DOMAIN told :
             /\ told[i] = stops[1]
             /\ \A j \in 1..(i - 1) : told[j] \notin Stopper
      BY <1>4, <2>2 DEF StopInv
    <3>2. i \in DOMAIN told' /\ told'[i] = stops'[1]
      BY <3>1, <2>2, <1>2, <1>3
    <3>3. ASSUME NEW j \in 1..(i - 1) PROVE told'[j] \notin Stopper
      <4>1. j \in 1..Len(told)
        BY <3>1, <1>2
      <4> QED
        BY <4>1, <3>1, <1>2
    <3> QED
      BY <3>2, <3>3
  <2> QED
    BY <2>1, <2>2
<1> QED
  BY <1>3, <1>4 DEF StopInv

(* A message other than a stop is heard: the stops move up by one.         *)
LEMMA OtherHeard ==
    ASSUME TypeOK, StopInv, told # <<>>, Head(told) \notin Stopper,
           told' = Tail(told), by = "nobody", UNCHANGED <<stops, by>>
    PROVE  StopInv'
<1>1. told \in Seq(Told)
  BY DEF TypeOK, ChannelTypes
<1>2. /\ DOMAIN told = 1..Len(told) /\ Len(told) \in Nat /\ Len(told) > 0
      /\ DOMAIN told' = 1..(Len(told) - 1) /\ Head(told) = told[1]
      /\ \A i \in 1..(Len(told) - 1) : told'[i] = told[i + 1]
  BY <1>1
<1>3. ASSUME stops = <<>>, NEW i \in DOMAIN told'
      PROVE  told'[i] \notin Stopper
  BY <1>2, <1>3 DEF StopInv
<1>4. ASSUME stops # <<>>
      PROVE  \E i \in DOMAIN told' :
                /\ told'[i] = stops[1]
                /\ \A j \in 1..(i - 1) : told'[j] \notin Stopper
  <2>1. PICK i \in DOMAIN told : /\ told[i] = stops[1]
                                /\ \A j \in 1..(i - 1) : told[j] \notin Stopper
    BY <1>4 DEF StopInv
  <2>2. stops[1] \in Stopper
    BY <1>4 DEF TypeOK, ChannelTypes
  <2>3. i # 1
    BY <1>2, <2>1, <2>2
  <2>4. i - 1 \in DOMAIN told' /\ told'[i - 1] = stops[1]
    BY <1>2, <2>1, <2>3
  <2>5. ASSUME NEW j \in 1..((i - 1) - 1) PROVE told'[j] \notin Stopper
    <3>1. j + 1 \in 1..(i - 1) /\ j \in 1..(Len(told) - 1)
      BY <1>2, <2>1
    <3> QED
      BY <3>1, <2>1, <1>2
  <2> QED
    BY <2>4, <2>5
<1> QED
  BY <1>3, <1>4 DEF StopInv

(* Two sequences in a row begin as the first does.                         *)
LEMMA HeadOfConcat ==
    ASSUME NEW S, NEW s \in Seq(S), NEW t \in Seq(S), s # <<>>
    PROVE  /\ s \o t # <<>> /\ Head(s \o t) = Head(s)
           /\ Tail(s \o t) = Tail(s) \o t
OBVIOUS

------------------------------------------------------------------------------
(* Every step keeps where the run is within its type.                     *)
LEMMA LifeTypesStep == ServiceInv /\ [Next]_vars => LifeTypes'
<1> SUFFICES ASSUME ServiceInv, [Next]_vars PROVE LifeTypes'
  OBVIOUS
<1> USE ServiceAssumption DEF ServiceInv, TypeOK, LifeTypes, Serving,
        lifeVars, channelVars, orderVars, nodeVars, loopVars, shownVars
<1>1. CASE TakeStopHandler
  BY <1>1 DEF TakeStopHandler, Refuse, Return
<1>2. CASE Start
  BY <1>2 DEF Start, Refuse, Return
<1>3. CASE Operate
  BY <1>3 DEF Operate, Refuse, Return
<1>4. CASE Authorize
  BY <1>4 DEF Authorize, Refuse, Return
<1>5. CASE Watch
  BY <1>5 DEF Watch, Refuse, Return
<1>6. CASE Declare
  BY <1>6 DEF Declare
<1>7. CASE Write
  BY <1>7 DEF Write
<1>8. CASE Ready
  BY <1>8 DEF Ready
<1>9. CASE Take
  BY <1>9 DEF Take
<1>10. CASE Apply
  BY <1>10 DEF Apply
<1>11. CASE AllApplied
  BY <1>11 DEF AllApplied
<1>12. CASE Due
  BY <1>12 DEF Due
<1>13. CASE Hear
  BY <1>13 DEF Hear, Heard
<1>14. CASE HearMore
  BY <1>14 DEF HearMore, Heard
<1>15. CASE Stopping
  BY <1>15 DEF Stopping
<1>16. CASE Drain
  BY <1>16 DEF Drain
<1>17. CASE Stopped
  BY <1>17 DEF Stopped, Return
<1>18. CASE StartAgain
  BY <1>18 DEF StartAgain, Unpublished
<1>19. ASSUME NEW s \in Stopper, Stop(s) PROVE LifeTypes'
  BY <1>19 DEF Stop
<1>20. ASSUME NEW o \in Order, Leave(o) PROVE LifeTypes'
  BY <1>20 DEF Leave
<1>21. CASE Notify
  BY <1>21 DEF Notify
<1>22. CASE Act
  BY <1>22 DEF Act
<1>23. CASE TellAct
  BY <1>23 DEF TellAct
<1>24. CASE UNCHANGED vars
  BY <1>24 DEF vars
<1> QED
  BY <1>1, <1>2, <1>3, <1>4, <1>5, <1>6, <1>7, <1>8, <1>9, <1>10, <1>11,
     <1>12, <1>13, <1>14, <1>15, <1>16, <1>17, <1>18, <1>19, <1>20, <1>21,
     <1>22, <1>23, <1>24
     DEF Next, Thread

(* Every step keeps the channel a sequence of what can be told.           *)
LEMMA ChannelTypesStep == ServiceInv /\ [Next]_vars => ChannelTypes'
<1> SUFFICES ASSUME ServiceInv, [Next]_vars PROVE ChannelTypes'
  OBVIOUS
<1> USE ServiceAssumption DEF ServiceInv, TypeOK, ChannelTypes, Told,
        lifeVars, channelVars, orderVars, nodeVars, loopVars, shownVars
<1>1. CASE TakeStopHandler
  BY <1>1 DEF TakeStopHandler, Refuse, Return
<1>2. CASE Start
  BY <1>2 DEF Start, Refuse, Return
<1>3. CASE Operate
  BY <1>3 DEF Operate, Refuse, Return
<1>4. CASE Authorize
  BY <1>4 DEF Authorize, Refuse, Return
<1>5. CASE Watch
  BY <1>5 DEF Watch, Refuse, Return
<1>6. CASE Declare
  BY <1>6 DEF Declare
<1>7. CASE Write
  BY <1>7 DEF Write
<1>8. CASE Ready
  BY <1>8 DEF Ready
<1>9. CASE Take
  BY <1>9 DEF Take
<1>10. CASE Apply
  BY <1>10 DEF Apply
<1>11. CASE AllApplied
  BY <1>11 DEF AllApplied
<1>12. CASE Due
  BY <1>12 DEF Due
<1>13. CASE Hear
  BY <1>13 DEF Hear, Heard
<1>14. CASE HearMore
  BY <1>14 DEF HearMore, Heard
<1>15. CASE Stopping
  BY <1>15 DEF Stopping
<1>16. CASE Drain
  BY <1>16 DEF Drain
<1>17. CASE Stopped
  BY <1>17 DEF Stopped, Return
<1>18. CASE StartAgain
  BY <1>18 DEF StartAgain, Unpublished
<1>19. ASSUME NEW s \in Stopper, Stop(s) PROVE ChannelTypes'
  BY <1>19 DEF Stop
<1>20. ASSUME NEW o \in Order, Leave(o) PROVE ChannelTypes'
  BY <1>20 DEF Leave
<1>21. CASE Notify
  BY <1>21 DEF Notify
<1>22. CASE Act
  BY <1>22 DEF Act
<1>23. CASE TellAct
  BY <1>23 DEF TellAct
<1>24. CASE UNCHANGED vars
  BY <1>24 DEF vars
<1> QED
  BY <1>1, <1>2, <1>3, <1>4, <1>5, <1>6, <1>7, <1>8, <1>9, <1>10, <1>11,
     <1>12, <1>13, <1>14, <1>15, <1>16, <1>17, <1>18, <1>19, <1>20, <1>21,
     <1>22, <1>23, <1>24
     DEF Next, Thread

(* Every step keeps the orders sequences of orders.                       *)
LEMMA OrderTypesStep == ServiceInv /\ [Next]_vars => OrderTypes'
<1> SUFFICES ASSUME ServiceInv, [Next]_vars PROVE OrderTypes'
  OBVIOUS
<1> USE ServiceAssumption DEF ServiceInv, TypeOK, OrderTypes, lifeVars,
        channelVars, orderVars, nodeVars, loopVars, shownVars
<1>1. CASE TakeStopHandler
  BY <1>1 DEF TakeStopHandler, Refuse, Return
<1>2. CASE Start
  BY <1>2 DEF Start, Refuse, Return
<1>3. CASE Operate
  BY <1>3 DEF Operate, Refuse, Return
<1>4. CASE Authorize
  BY <1>4 DEF Authorize, Refuse, Return
<1>5. CASE Watch
  BY <1>5 DEF Watch, Refuse, Return
<1>6. CASE Declare
  BY <1>6 DEF Declare
<1>7. CASE Write
  BY <1>7 DEF Write
<1>8. CASE Ready
  BY <1>8 DEF Ready
<1>9. CASE Take
  <2>1. CASE taking
    BY <1>9, <2>1 DEF Take
  <2>2. CASE ~taking
    BY <1>9, <2>2 DEF Take
  <2> QED
    BY <2>1, <2>2
<1>10. CASE Apply
  BY <1>10 DEF Apply
<1>11. CASE AllApplied
  BY <1>11 DEF AllApplied
<1>12. CASE Due
  BY <1>12 DEF Due
<1>13. CASE Hear
  BY <1>13 DEF Hear, Heard
<1>14. CASE HearMore
  BY <1>14 DEF HearMore, Heard
<1>15. CASE Stopping
  BY <1>15 DEF Stopping
<1>16. CASE Drain
  BY <1>16 DEF Drain
<1>17. CASE Stopped
  BY <1>17 DEF Stopped, Return
<1>18. CASE StartAgain
  BY <1>18 DEF StartAgain, Unpublished
<1>19. ASSUME NEW s \in Stopper, Stop(s) PROVE OrderTypes'
  BY <1>19 DEF Stop
<1>20. ASSUME NEW o \in Order, Leave(o) PROVE OrderTypes'
  BY <1>20 DEF Leave
<1>21. CASE Notify
  BY <1>21 DEF Notify
<1>22. CASE Act
  BY <1>22 DEF Act
<1>23. CASE TellAct
  BY <1>23 DEF TellAct
<1>24. CASE UNCHANGED vars
  BY <1>24 DEF vars
<1> QED
  BY <1>1, <1>2, <1>3, <1>4, <1>5, <1>6, <1>7, <1>8, <1>9, <1>10, <1>11,
     <1>12, <1>13, <1>14, <1>15, <1>16, <1>17, <1>18, <1>19, <1>20, <1>21,
     <1>22, <1>23, <1>24
     DEF Next, Thread

(* Every step keeps the node's counts and the loop's flags typed.         *)
LEMMA NodeTypesStep == ServiceInv /\ [Next]_vars => NodeTypes'
<1> SUFFICES ASSUME ServiceInv, [Next]_vars PROVE NodeTypes'
  OBVIOUS
<1> USE ServiceAssumption DEF ServiceInv, TypeOK, NodeTypes, lifeVars,
        channelVars, orderVars, nodeVars, loopVars, shownVars
<1>1. CASE TakeStopHandler
  BY <1>1 DEF TakeStopHandler, Refuse, Return
<1>2. CASE Start
  BY <1>2 DEF Start, Refuse, Return
<1>3. CASE Operate
  BY <1>3 DEF Operate, Refuse, Return
<1>4. CASE Authorize
  BY <1>4 DEF Authorize, Refuse, Return
<1>5. CASE Watch
  BY <1>5 DEF Watch, Refuse, Return
<1>6. CASE Declare
  BY <1>6 DEF Declare
<1>7. CASE Write
  BY <1>7 DEF Write
<1>8. CASE Ready
  BY <1>8 DEF Ready
<1>9. CASE Take
  BY <1>9 DEF Take
<1>10. CASE Apply
  <2>1. version' \in Nat
    BY <1>10 DEF Apply
  <2>2. applied' \in BOOLEAN
    BY <1>10 DEF Apply
  <2> QED
    BY <1>10, <2>1, <2>2 DEF Apply
<1>11. CASE AllApplied
  BY <1>11 DEF AllApplied
<1>12. CASE Due
  BY <1>12 DEF Due
<1>13. CASE Hear
  BY <1>13 DEF Hear, Heard
<1>14. CASE HearMore
  BY <1>14 DEF HearMore, Heard
<1>15. CASE Stopping
  BY <1>15 DEF Stopping
<1>16. CASE Drain
  BY <1>16 DEF Drain
<1>17. CASE Stopped
  BY <1>17 DEF Stopped, Return
<1>18. CASE StartAgain
  BY <1>18 DEF StartAgain, Unpublished
<1>19. ASSUME NEW s \in Stopper, Stop(s) PROVE NodeTypes'
  BY <1>19 DEF Stop
<1>20. ASSUME NEW o \in Order, Leave(o) PROVE NodeTypes'
  BY <1>20 DEF Leave
<1>21. CASE Notify
  BY <1>21 DEF Notify
<1>22. CASE Act
  BY <1>22 DEF Act
<1>23. CASE TellAct
  BY <1>23 DEF TellAct
<1>24. CASE UNCHANGED vars
  BY <1>24 DEF vars
<1> QED
  BY <1>1, <1>2, <1>3, <1>4, <1>5, <1>6, <1>7, <1>8, <1>9, <1>10, <1>11,
     <1>12, <1>13, <1>14, <1>15, <1>16, <1>17, <1>18, <1>19, <1>20, <1>21,
     <1>22, <1>23, <1>24
     DEF Next, Thread

(* Every step keeps what is published a publication.                      *)
LEMMA ShownTypesStep == ServiceInv /\ [Next]_vars => ShownTypes'
<1> SUFFICES ASSUME ServiceInv, [Next]_vars PROVE ShownTypes'
  OBVIOUS
<1> USE ServiceAssumption DEF ServiceInv, TypeOK, ShownTypes, NodeTypes,
        Publication, lifeVars, channelVars, orderVars, nodeVars, loopVars,
        shownVars
<1>1. CASE TakeStopHandler
  BY <1>1 DEF TakeStopHandler, Refuse, Return
<1>2. CASE Start
  BY <1>2 DEF Start, Refuse, Return
<1>3. CASE Operate
  BY <1>3 DEF Operate, Refuse, Return
<1>4. CASE Authorize
  BY <1>4 DEF Authorize, Refuse, Return
<1>5. CASE Watch
  BY <1>5 DEF Watch, Refuse, Return
<1>6. CASE Declare
  BY <1>6 DEF Declare
<1>7. CASE Write
  <2>1. board' \in Publication
    BY <1>7 DEF Write
  <2>2. file' = board' \/ file' = file
    BY <1>7 DEF Write
  <2>3. file' \in Publication
    BY <2>1, <2>2
  <2>4. text' \in Nat /\ last' \in Nat
    BY <1>7 DEF Write
  <2>5. failing' \in BOOLEAN
    BY <1>7 DEF Write
  <2> QED
    BY <2>1, <2>3, <2>4, <2>5
<1>8. CASE Ready
  BY <1>8 DEF Ready
<1>9. CASE Take
  BY <1>9 DEF Take
<1>10. CASE Apply
  BY <1>10 DEF Apply
<1>11. CASE AllApplied
  BY <1>11 DEF AllApplied
<1>12. CASE Due
  BY <1>12 DEF Due
<1>13. CASE Hear
  BY <1>13 DEF Hear, Heard
<1>14. CASE HearMore
  BY <1>14 DEF HearMore, Heard
<1>15. CASE Stopping
  BY <1>15 DEF Stopping
<1>16. CASE Drain
  BY <1>16 DEF Drain
<1>17. CASE Stopped
  <2>1. board' \in Publication
    BY <1>17 DEF Stopped, Return
  <2>2. file' = board' \/ file' = file
    BY <1>17 DEF Stopped, Return
  <2>3. file' \in Publication
    BY <2>1, <2>2
  <2>4. text' \in Nat /\ last' \in Nat
    BY <1>17 DEF Stopped, Return
  <2>5. failing' \in BOOLEAN
    BY <1>17 DEF Stopped, Return
  <2> QED
    BY <2>1, <2>3, <2>4, <2>5
<1>18. CASE StartAgain
  BY <1>18 DEF StartAgain, Unpublished
<1>19. ASSUME NEW s \in Stopper, Stop(s) PROVE ShownTypes'
  BY <1>19 DEF Stop
<1>20. ASSUME NEW o \in Order, Leave(o) PROVE ShownTypes'
  BY <1>20 DEF Leave
<1>21. CASE Notify
  BY <1>21 DEF Notify
<1>22. CASE Act
  BY <1>22 DEF Act
<1>23. CASE TellAct
  BY <1>23 DEF TellAct
<1>24. CASE UNCHANGED vars
  BY <1>24 DEF vars
<1> QED
  BY <1>1, <1>2, <1>3, <1>4, <1>5, <1>6, <1>7, <1>8, <1>9, <1>10, <1>11,
     <1>12, <1>13, <1>14, <1>15, <1>16, <1>17, <1>18, <1>19, <1>20, <1>21,
     <1>22, <1>23, <1>24
     DEF Next, Thread

(* What is held where the thread is, is kept.                             *)
LEMMA LifeStep == ServiceInv /\ [Next]_vars => LifeInv'
<1> SUFFICES ASSUME ServiceInv, [Next]_vars PROVE LifeInv'
  OBVIOUS
<1> USE ServiceAssumption DEF ServiceInv, TypeOK, LifeTypes, LifeInv, Serving,
        Started, Operated, Watched, Before, Publication, ShownTypes,
        OrderTypes, lifeVars, channelVars, orderVars, nodeVars, loopVars,
        shownVars
<1>1. CASE TakeStopHandler
  BY <1>1 DEF TakeStopHandler, Refuse, Return
<1>2. CASE Start
  BY <1>2 DEF Start, Refuse, Return
<1>3. CASE Operate
  BY <1>3 DEF Operate, Refuse, Return
<1>4. CASE Authorize
  <2>1. CASE Refuse
    BY <1>4, <2>1 DEF Authorize, Refuse, Return
  <2>2. CASE ~Refuse
    <3>1. /\ pc = "authorize" /\ pc' = "watch" /\ watching' = watching
          /\ UNCHANGED <<ended, running, operate, declared, reported, board,
                         notices, batch>>
      BY <1>4, <2>2 DEF Authorize
    <3> QED
      BY <3>1
  <2> QED
    BY <2>1, <2>2
<1>5. CASE Watch
  <2>1. CASE Refuse
    BY <1>5, <2>1 DEF Watch, Refuse, Return
  <2>2. CASE ~Refuse
    <3>1. /\ pc = "watch" /\ pc' = "declare" /\ watching' = TRUE
          /\ UNCHANGED <<ended, running, operate, declared, reported, board,
                         notices, batch>>
      BY <1>5, <2>2 DEF Watch
    <3> QED
      BY <3>1
  <2> QED
    BY <2>1, <2>2
<1>6. CASE Declare
  BY <1>6 DEF Declare
<1>7. CASE Write
  BY <1>7 DEF Write
<1>8. CASE Ready
  BY <1>8 DEF Ready
<1>9. CASE Take
  BY <1>9 DEF Take
<1>10. CASE Apply
  BY <1>10 DEF Apply
<1>11. CASE AllApplied
  BY <1>11 DEF AllApplied
<1>12. CASE Due
  BY <1>12 DEF Due
<1>13. CASE Hear
  BY <1>13 DEF Hear, Heard
<1>14. CASE HearMore
  BY <1>14 DEF HearMore, Heard
<1>15. CASE Stopping
  BY <1>15 DEF Stopping
<1>16. CASE Drain
  BY <1>16 DEF Drain
<1>17. CASE Stopped
  BY <1>17 DEF Stopped, Return
<1>18. CASE StartAgain
  BY <1>18 DEF StartAgain, Unpublished
<1>19. ASSUME NEW s \in Stopper, Stop(s) PROVE LifeInv'
  BY <1>19 DEF Stop
<1>20. ASSUME NEW o \in Order, Leave(o) PROVE LifeInv'
  BY <1>20 DEF Leave
<1>21. CASE Notify
  BY <1>21 DEF Notify
<1>22. CASE Act
  BY <1>22 DEF Act
<1>23. CASE TellAct
  BY <1>23 DEF TellAct
<1>24. CASE UNCHANGED vars
  BY <1>24 DEF vars
<1> QED
  BY <1>1, <1>2, <1>3, <1>4, <1>5, <1>6, <1>7, <1>8, <1>9, <1>10, <1>11,
     <1>12, <1>13, <1>14, <1>15, <1>16, <1>17, <1>18, <1>19, <1>20, <1>21,
     <1>22, <1>23, <1>24
     DEF Next, Thread

(* An order has its wake-up.                                              *)
LEMMA NoLostOrderStep == ServiceInv /\ [Next]_vars => NoLostOrder'
<1> SUFFICES ASSUME ServiceInv, [Next]_vars PROVE NoLostOrder'
  OBVIOUS
<1> USE ServiceAssumption DEF ServiceInv, TypeOK, ChannelTypes, Told,
        LifeTypes, NoLostOrder, LifeInv, Serving, Watched, OrderTypes,
        Started, lifeVars, channelVars, orderVars, nodeVars, loopVars,
        shownVars
<1>1. CASE TakeStopHandler
  BY <1>1 DEF TakeStopHandler, Refuse, Return
<1>2. CASE Start
  BY <1>2 DEF Start, Refuse, Return
<1>3. CASE Operate
  BY <1>3 DEF Operate, Refuse, Return
<1>4. CASE Authorize
  BY <1>4 DEF Authorize, Refuse, Return
<1>5. CASE Watch
  BY <1>5 DEF Watch, Refuse, Return
<1>6. CASE Declare
  BY <1>6 DEF Declare
<1>7. CASE Write
  BY <1>7 DEF Write
<1>8. CASE Ready
  BY <1>8 DEF Ready
<1>9. CASE Take
  BY <1>9 DEF Take
<1>10. CASE Apply
  BY <1>10 DEF Apply
<1>11. CASE AllApplied
  BY <1>11 DEF AllApplied
<1>12. CASE Due
  BY <1>12 DEF Due
<1>13. CASE Hear
  <2>1. CASE told = <<>>
    BY <1>13, <2>1 DEF Hear, Heard, Elements
  <2>2. CASE told # <<>>
    <3>1. Elements(told) = {Head(told)} \cup Elements(told')
      BY <1>13, <2>2, ToldTail DEF Hear, Heard
    <3> QED
      BY <1>13, <2>2, <3>1 DEF Hear, Heard
  <2> QED
    BY <2>1, <2>2
<1>14. CASE HearMore
  <2>1. CASE told = <<>>
    BY <1>14, <2>1 DEF HearMore, Heard, Elements
  <2>2. CASE told # <<>>
    <3>1. Elements(told) = {Head(told)} \cup Elements(told')
      BY <1>14, <2>2, ToldTail DEF HearMore, Heard
    <3> QED
      BY <1>14, <2>2, <3>1 DEF HearMore, Heard
  <2> QED
    BY <2>1, <2>2
<1>15. CASE Stopping
  BY <1>15 DEF Stopping
<1>16. CASE Drain
  BY <1>16 DEF Drain
<1>17. CASE Stopped
  BY <1>17 DEF Stopped, Return
<1>18. CASE StartAgain
  BY <1>18 DEF StartAgain, Unpublished
<1>19. ASSUME NEW s \in Stopper, Stop(s) PROVE NoLostOrder'
  <2>0. TypeOK /\ s \in Told /\ told' = Append(told, s)
    BY <1>19 DEF Stop
  <2>1. Elements(told') = Elements(told) \cup {s}
    BY <2>0, ToldAppend
  <2> QED
    BY <1>19, <2>1 DEF Stop
<1>20. ASSUME NEW o \in Order, Leave(o) PROVE NoLostOrder'
  BY <1>20 DEF Leave
<1>21. CASE Notify
  <2>0. TypeOK /\ "Orders" \in Told /\ told' = Append(told, "Orders")
    BY <1>21 DEF Notify
  <2>1. Elements(told') = Elements(told) \cup {"Orders"}
    BY <2>0, ToldAppend
  <2> QED
    BY <1>21, <2>1 DEF Notify
<1>22. CASE Act
  BY <1>22 DEF Act
<1>23. CASE TellAct
  <2>0. TypeOK /\ "Acted" \in Told /\ told' = Append(told, "Acted")
    BY <1>23 DEF TellAct
  <2>1. Elements(told') = Elements(told) \cup {"Acted"}
    BY <2>0, ToldAppend
  <2> QED
    BY <1>23, <2>1 DEF TellAct
<1>24. CASE UNCHANGED vars
  BY <1>24 DEF vars
<1> QED
  BY <1>1, <1>2, <1>3, <1>4, <1>5, <1>6, <1>7, <1>8, <1>9, <1>10, <1>11,
     <1>12, <1>13, <1>14, <1>15, <1>16, <1>17, <1>18, <1>19, <1>20, <1>21,
     <1>22, <1>23, <1>24
     DEF Next, Thread

(* An act has its wake-up.                                                *)
LEMMA ActStep == ServiceInv /\ [Next]_vars => ActInv'
<1> SUFFICES ASSUME ServiceInv, [Next]_vars PROVE ActInv'
  OBVIOUS
<1> USE ServiceAssumption DEF ServiceInv, TypeOK, ChannelTypes, Told,
        LifeTypes, NodeTypes, ActInv, LifeInv, Serving, Showing, Before,
        Operated, Started, ShownTypes, Publication, lifeVars, channelVars,
        orderVars, nodeVars, loopVars, shownVars
<1>1. CASE TakeStopHandler
  BY <1>1 DEF TakeStopHandler, Refuse, Return
<1>2. CASE Start
  BY <1>2 DEF Start, Refuse, Return
<1>3. CASE Operate
  BY <1>3 DEF Operate, Refuse, Return
<1>4. CASE Authorize
  BY <1>4 DEF Authorize, Refuse, Return
<1>5. CASE Watch
  BY <1>5 DEF Watch, Refuse, Return
<1>6. CASE Declare
  BY <1>6 DEF Declare
<1>7. CASE Write
  BY <1>7 DEF Write
<1>8. CASE Ready
  BY <1>8 DEF Ready
<1>9. CASE Take
  BY <1>9 DEF Take
<1>10. CASE Apply
  BY <1>10 DEF Apply
<1>11. CASE AllApplied
  BY <1>11 DEF AllApplied
<1>12. CASE Due
  BY <1>12 DEF Due
<1>13. CASE Hear
  <2>1. CASE told = <<>>
    BY <1>13, <2>1 DEF Hear, Heard, Elements
  <2>2. CASE told # <<>>
    <3>1. Elements(told) = {Head(told)} \cup Elements(told')
      BY <1>13, <2>2, ToldTail DEF Hear, Heard
    <3> QED
      BY <1>13, <2>2, <3>1 DEF Hear, Heard
  <2> QED
    BY <2>1, <2>2
<1>14. CASE HearMore
  <2>1. CASE told = <<>>
    BY <1>14, <2>1 DEF HearMore, Heard, Elements
  <2>2. CASE told # <<>>
    <3>1. Elements(told) = {Head(told)} \cup Elements(told')
      BY <1>14, <2>2, ToldTail DEF HearMore, Heard
    <3> QED
      BY <1>14, <2>2, <3>1 DEF HearMore, Heard
  <2> QED
    BY <2>1, <2>2
<1>15. CASE Stopping
  BY <1>15 DEF Stopping
<1>16. CASE Drain
  BY <1>16 DEF Drain
<1>17. CASE Stopped
  BY <1>17 DEF Stopped, Return
<1>18. CASE StartAgain
  BY <1>18 DEF StartAgain, Unpublished
<1>19. ASSUME NEW s \in Stopper, Stop(s) PROVE ActInv'
  <2>0. TypeOK /\ s \in Told /\ told' = Append(told, s)
    BY <1>19 DEF Stop
  <2>1. Elements(told') = Elements(told) \cup {s}
    BY <2>0, ToldAppend
  <2> QED
    BY <1>19, <2>1 DEF Stop
<1>20. ASSUME NEW o \in Order, Leave(o) PROVE ActInv'
  BY <1>20 DEF Leave
<1>21. CASE Notify
  <2>0. TypeOK /\ "Orders" \in Told /\ told' = Append(told, "Orders")
    BY <1>21 DEF Notify
  <2>1. Elements(told') = Elements(told) \cup {"Orders"}
    BY <2>0, ToldAppend
  <2> QED
    BY <1>21, <2>1 DEF Notify
<1>22. CASE Act
  BY <1>22 DEF Act
<1>23. CASE TellAct
  <2>0. TypeOK /\ "Acted" \in Told /\ told' = Append(told, "Acted")
    BY <1>23 DEF TellAct
  <2>1. Elements(told') = Elements(told) \cup {"Acted"}
    BY <2>0, ToldAppend
  <2> QED
    BY <1>23, <2>1 DEF TellAct
<1>24. CASE UNCHANGED vars
  BY <1>24 DEF vars
<1> QED
  BY <1>1, <1>2, <1>3, <1>4, <1>5, <1>6, <1>7, <1>8, <1>9, <1>10, <1>11,
     <1>12, <1>13, <1>14, <1>15, <1>16, <1>17, <1>18, <1>19, <1>20, <1>21,
     <1>22, <1>23, <1>24
     DEF Next, Thread

(* The first stop sent stays the first stop in the channel.                *)
LEMMA StopStep == ServiceInv /\ [Next]_vars => StopInv'
<1> SUFFICES ASSUME ServiceInv, [Next]_vars PROVE StopInv'
  OBVIOUS
<1> USE ServiceAssumption DEF ServiceInv, TypeOK, ChannelTypes, Told,
        LifeTypes, LifeInv, StopInv, FirstStopNamed, lifeVars, channelVars,
        orderVars, nodeVars, loopVars, shownVars
<1>1. CASE TakeStopHandler
  BY <1>1 DEF TakeStopHandler, Refuse, Return
<1>2. CASE Start
  BY <1>2 DEF Start, Refuse, Return
<1>3. CASE Operate
  BY <1>3 DEF Operate, Refuse, Return
<1>4. CASE Authorize
  BY <1>4 DEF Authorize, Refuse, Return
<1>5. CASE Watch
  BY <1>5 DEF Watch, Refuse, Return
<1>6. CASE Declare
  BY <1>6 DEF Declare
<1>7. CASE Write
  BY <1>7 DEF Write
<1>8. CASE Ready
  BY <1>8 DEF Ready
<1>9. CASE Take
  BY <1>9 DEF Take
<1>10. CASE Apply
  BY <1>10 DEF Apply
<1>11. CASE AllApplied
  BY <1>11 DEF AllApplied
<1>12. CASE Due
  BY <1>12 DEF Due
<1>13. CASE Hear
  <2>1. CASE told = <<>>
    BY <1>13, <2>1 DEF Hear
  <2>2. CASE told # <<>> /\ Head(told) \in Stopper
    BY <1>13, <2>2 DEF Hear, Heard
  <2>3. CASE told # <<>> /\ Head(told) \notin Stopper
    BY <1>13, <2>3, OtherHeard DEF Hear, Heard
  <2> QED
    BY <2>1, <2>2, <2>3
<1>14. CASE HearMore
  <2>1. CASE told = <<>>
    BY <1>14, <2>1 DEF HearMore
  <2>2. CASE told # <<>> /\ Head(told) \in Stopper
    BY <1>14, <2>2 DEF HearMore, Heard
  <2>3. CASE told # <<>> /\ Head(told) \notin Stopper
    BY <1>14, <2>3, OtherHeard DEF HearMore, Heard
  <2> QED
    BY <2>1, <2>2, <2>3
<1>15. CASE Stopping
  BY <1>15 DEF Stopping
<1>16. CASE Drain
  BY <1>16 DEF Drain
<1>17. CASE Stopped
  BY <1>17 DEF Stopped, Return
<1>18. CASE StartAgain
  BY <1>18 DEF StartAgain, Unpublished
<1>19. ASSUME NEW s \in Stopper, Stop(s) PROVE StopInv'
  BY <1>19, StopTold DEF Stop
<1>20. ASSUME NEW o \in Order, Leave(o) PROVE StopInv'
  BY <1>20 DEF Leave
<1>21. CASE Notify
  BY <1>21, OtherTold DEF Notify
<1>22. CASE Act
  BY <1>22 DEF Act
<1>23. CASE TellAct
  BY <1>23, OtherTold DEF TellAct
<1>24. CASE UNCHANGED vars
  BY <1>24 DEF vars
<1> QED
  BY <1>1, <1>2, <1>3, <1>4, <1>5, <1>6, <1>7, <1>8, <1>9, <1>10, <1>11,
     <1>12, <1>13, <1>14, <1>15, <1>16, <1>17, <1>18, <1>19, <1>20, <1>21,
     <1>22, <1>23, <1>24
     DEF Next, Thread

(* What was answered, is in hand and lies there stays what was left.       *)
LEMMA OldestFirstStep == ServiceInv /\ [Next]_vars => OldestFirst'
<1> SUFFICES ASSUME ServiceInv, [Next]_vars PROVE OldestFirst'
  OBVIOUS
<1> USE ServiceAssumption DEF ServiceInv, TypeOK, OrderTypes, LifeInv,
        OldestFirst, lifeVars, channelVars, orderVars, nodeVars, loopVars,
        shownVars
<1>1. CASE TakeStopHandler
  BY <1>1 DEF TakeStopHandler, Refuse, Return
<1>2. CASE Start
  BY <1>2 DEF Start, Refuse, Return
<1>3. CASE Operate
  BY <1>3 DEF Operate, Refuse, Return
<1>4. CASE Authorize
  BY <1>4 DEF Authorize, Refuse, Return
<1>5. CASE Watch
  BY <1>5 DEF Watch, Refuse, Return
<1>6. CASE Declare
  BY <1>6 DEF Declare
<1>7. CASE Write
  BY <1>7 DEF Write
<1>8. CASE Ready
  BY <1>8 DEF Ready
<1>9. CASE Take
  <2>1. batch = <<>> /\ handled \o batch = handled
    BY <1>9, ConcatEmptySeq DEF Take
  <2>2. dir \o <<>> = dir /\ (handled \o dir) \o <<>> = handled \o dir
    BY ConcatEmptySeq, ConcatProperties
  <2> QED
    BY <1>9, <2>1, <2>2 DEF Take
<1>10. CASE Apply
  <2>1. /\ handled \in Seq(Order) /\ batch \in Seq(Order) /\ batch # <<>>
        /\ handled' = Append(handled, Head(batch)) /\ batch' = Tail(batch)
        /\ dir' = dir /\ left' = left
    BY <1>10 DEF Apply
  <2>2. handled' \o batch' = handled \o batch
    BY <2>1, ConcatShift
  <2> QED
    BY <2>1, <2>2
<1>11. CASE AllApplied
  BY <1>11 DEF AllApplied
<1>12. CASE Due
  BY <1>12 DEF Due
<1>13. CASE Hear
  BY <1>13 DEF Hear, Heard
<1>14. CASE HearMore
  BY <1>14 DEF HearMore, Heard
<1>15. CASE Stopping
  BY <1>15 DEF Stopping
<1>16. CASE Drain
  BY <1>16 DEF Drain
<1>17. CASE Stopped
  BY <1>17 DEF Stopped, Return
<1>18. CASE StartAgain
  BY <1>18 DEF StartAgain, Unpublished
<1>19. ASSUME NEW s \in Stopper, Stop(s) PROVE OldestFirst'
  BY <1>19 DEF Stop
<1>20. ASSUME NEW o \in Order, Leave(o) PROVE OldestFirst'
  <2>1. /\ handled \o batch \in Seq(Order) /\ dir \in Seq(Order)
        /\ dir' = Append(dir, o) /\ left' = Append(left, o)
        /\ handled' = handled /\ batch' = batch
    BY <1>20, ConcatProperties DEF Leave
  <2>2. (handled \o batch) \o Append(dir, o)
          = Append((handled \o batch) \o dir, o)
    <3> DEFINE before == handled \o batch
    <3> HIDE DEF before
    <3>1. before \in Seq(Order) /\ dir \in Seq(Order)
      BY <2>1 DEF before
    <3>2. before \o Append(dir, o) = Append(before \o dir, o)
      BY <3>1, ConcatAppend
    <3> QED
      BY <3>2 DEF before
  <2> QED
    BY <2>1, <2>2
<1>21. CASE Notify
  BY <1>21 DEF Notify
<1>22. CASE Act
  BY <1>22 DEF Act
<1>23. CASE TellAct
  BY <1>23 DEF TellAct
<1>24. CASE UNCHANGED vars
  BY <1>24 DEF vars
<1> QED
  BY <1>1, <1>2, <1>3, <1>4, <1>5, <1>6, <1>7, <1>8, <1>9, <1>10, <1>11,
     <1>12, <1>13, <1>14, <1>15, <1>16, <1>17, <1>18, <1>19, <1>20, <1>21,
     <1>22, <1>23, <1>24
     DEF Next, Thread

(* The stop a run names is the one sent first.                            *)
LEMMA FirstStopStep == ServiceInv /\ [Next]_vars => FirstStopNamed'
<1> SUFFICES ASSUME ServiceInv, [Next]_vars PROVE FirstStopNamed'
  OBVIOUS
<1> USE ServiceAssumption DEF ServiceInv, TypeOK, ChannelTypes, Told,
        LifeTypes, LifeInv, StopInv, FirstStopNamed, lifeVars, channelVars,
        orderVars, nodeVars, loopVars, shownVars
<1>1. CASE TakeStopHandler
  BY <1>1 DEF TakeStopHandler, Refuse, Return
<1>2. CASE Start
  BY <1>2 DEF Start, Refuse, Return
<1>3. CASE Operate
  BY <1>3 DEF Operate, Refuse, Return
<1>4. CASE Authorize
  BY <1>4 DEF Authorize, Refuse, Return
<1>5. CASE Watch
  BY <1>5 DEF Watch, Refuse, Return
<1>6. CASE Declare
  BY <1>6 DEF Declare
<1>7. CASE Write
  BY <1>7 DEF Write
<1>8. CASE Ready
  BY <1>8 DEF Ready
<1>9. CASE Take
  BY <1>9 DEF Take
<1>10. CASE Apply
  BY <1>10 DEF Apply
<1>11. CASE AllApplied
  BY <1>11 DEF AllApplied
<1>12. CASE Due
  BY <1>12 DEF Due
<1>13. CASE Hear
  BY <1>13 DEF Hear, Heard
<1>14. CASE HearMore
  BY <1>14 DEF HearMore, Heard
<1>15. CASE Stopping
  BY <1>15 DEF Stopping
<1>16. CASE Drain
  BY <1>16 DEF Drain
<1>17. CASE Stopped
  BY <1>17 DEF Stopped, Return
<1>18. CASE StartAgain
  BY <1>18 DEF StartAgain, Unpublished
<1>19. ASSUME NEW s \in Stopper, Stop(s) PROVE FirstStopNamed'
  BY <1>19 DEF Stop
<1>20. ASSUME NEW o \in Order, Leave(o) PROVE FirstStopNamed'
  BY <1>20 DEF Leave
<1>21. CASE Notify
  BY <1>21 DEF Notify
<1>22. CASE Act
  BY <1>22 DEF Act
<1>23. CASE TellAct
  BY <1>23 DEF TellAct
<1>24. CASE UNCHANGED vars
  BY <1>24 DEF vars
<1> QED
  BY <1>1, <1>2, <1>3, <1>4, <1>5, <1>6, <1>7, <1>8, <1>9, <1>10, <1>11,
     <1>12, <1>13, <1>14, <1>15, <1>16, <1>17, <1>18, <1>19, <1>20, <1>21,
     <1>22, <1>23, <1>24
     DEF Next, Thread

(* The file shows no more than what is about to replace it.               *)
LEMMA ShownStep == ServiceInv /\ [Next]_vars => ShownInv'
<1> SUFFICES ASSUME ServiceInv, [Next]_vars PROVE ShownInv'
  OBVIOUS
<1> USE ServiceAssumption DEF ServiceInv, TypeOK, NodeTypes, ShownTypes,
        LifeTypes, LifeInv, Publication, ShownInv, Serving, Before, Watched,
        Started, Operated, lifeVars, channelVars, orderVars, nodeVars,
        loopVars, shownVars
<1>1. CASE TakeStopHandler
  BY <1>1 DEF TakeStopHandler, Refuse, Return
<1>2. CASE Start
  BY <1>2 DEF Start, Refuse, Return
<1>3. CASE Operate
  BY <1>3 DEF Operate, Refuse, Return
<1>4. CASE Authorize
  BY <1>4 DEF Authorize, Refuse, Return
<1>5. CASE Watch
  BY <1>5 DEF Watch, Refuse, Return
<1>6. CASE Declare
  BY <1>6 DEF Declare
<1>7. CASE Write
  BY <1>7 DEF Write
<1>8. CASE Ready
  BY <1>8 DEF Ready
<1>9. CASE Take
  BY <1>9 DEF Take
<1>10. CASE Apply
  BY <1>10 DEF Apply
<1>11. CASE AllApplied
  BY <1>11 DEF AllApplied
<1>12. CASE Due
  BY <1>12 DEF Due
<1>13. CASE Hear
  BY <1>13 DEF Hear, Heard
<1>14. CASE HearMore
  BY <1>14 DEF HearMore, Heard
<1>15. CASE Stopping
  BY <1>15 DEF Stopping
<1>16. CASE Drain
  BY <1>16 DEF Drain
<1>17. CASE Stopped
  BY <1>17 DEF Stopped, Return
<1>18. CASE StartAgain
  BY <1>18 DEF StartAgain, Unpublished
<1>19. ASSUME NEW s \in Stopper, Stop(s) PROVE ShownInv'
  BY <1>19 DEF Stop
<1>20. ASSUME NEW o \in Order, Leave(o) PROVE ShownInv'
  BY <1>20 DEF Leave
<1>21. CASE Notify
  BY <1>21 DEF Notify
<1>22. CASE Act
  BY <1>22 DEF Act
<1>23. CASE TellAct
  BY <1>23 DEF TellAct
<1>24. CASE UNCHANGED vars
  BY <1>24 DEF vars
<1> QED
  BY <1>1, <1>2, <1>3, <1>4, <1>5, <1>6, <1>7, <1>8, <1>9, <1>10, <1>11,
     <1>12, <1>13, <1>14, <1>15, <1>16, <1>17, <1>18, <1>19, <1>20, <1>21,
     <1>22, <1>23, <1>24
     DEF Next, Thread

(* A drained run keeps saying that it stopped.                            *)
LEMMA StopShownStep == ServiceInv /\ [Next]_vars => StopShown'
<1> SUFFICES ASSUME ServiceInv, [Next]_vars PROVE StopShown'
  OBVIOUS
<1> USE ServiceAssumption DEF ServiceInv, TypeOK, NodeTypes, ShownTypes,
        LifeTypes, LifeInv, Publication, StopShown, Serving, lifeVars,
        channelVars, orderVars, nodeVars, loopVars, shownVars
<1>1. CASE TakeStopHandler
  BY <1>1 DEF TakeStopHandler, Refuse, Return
<1>2. CASE Start
  BY <1>2 DEF Start, Refuse, Return
<1>3. CASE Operate
  BY <1>3 DEF Operate, Refuse, Return
<1>4. CASE Authorize
  BY <1>4 DEF Authorize, Refuse, Return
<1>5. CASE Watch
  BY <1>5 DEF Watch, Refuse, Return
<1>6. CASE Declare
  BY <1>6 DEF Declare
<1>7. CASE Write
  BY <1>7 DEF Write
<1>8. CASE Ready
  BY <1>8 DEF Ready
<1>9. CASE Take
  BY <1>9 DEF Take
<1>10. CASE Apply
  BY <1>10 DEF Apply
<1>11. CASE AllApplied
  BY <1>11 DEF AllApplied
<1>12. CASE Due
  BY <1>12 DEF Due
<1>13. CASE Hear
  BY <1>13 DEF Hear, Heard
<1>14. CASE HearMore
  BY <1>14 DEF HearMore, Heard
<1>15. CASE Stopping
  BY <1>15 DEF Stopping
<1>16. CASE Drain
  BY <1>16 DEF Drain
<1>17. CASE Stopped
  BY <1>17 DEF Stopped, Return
<1>18. CASE StartAgain
  BY <1>18 DEF StartAgain, Unpublished
<1>19. ASSUME NEW s \in Stopper, Stop(s) PROVE StopShown'
  BY <1>19 DEF Stop
<1>20. ASSUME NEW o \in Order, Leave(o) PROVE StopShown'
  BY <1>20 DEF Leave
<1>21. CASE Notify
  BY <1>21 DEF Notify
<1>22. CASE Act
  BY <1>22 DEF Act
<1>23. CASE TellAct
  BY <1>23 DEF TellAct
<1>24. CASE UNCHANGED vars
  BY <1>24 DEF vars
<1> QED
  BY <1>1, <1>2, <1>3, <1>4, <1>5, <1>6, <1>7, <1>8, <1>9, <1>10, <1>11,
     <1>12, <1>13, <1>14, <1>15, <1>16, <1>17, <1>18, <1>19, <1>20, <1>21,
     <1>22, <1>23, <1>24
     DEF Next, Thread

------------------------------------------------------------------------------
(* The process starts with the invariant.                                  *)
LEMMA InitInv == Init => ServiceInv
<1> SUFFICES ASSUME Init PROVE ServiceInv
  OBVIOUS
<1> USE ServiceAssumption DEF Init
<1>1. TypeOK
  <2>1. LifeTypes
    BY DEF LifeTypes
  <2>2. ChannelTypes
    BY DEF ChannelTypes
  <2>3. OrderTypes
    BY DEF OrderTypes
  <2>4. NodeTypes
    BY DEF NodeTypes
  <2>5. ShownTypes
    BY DEF ShownTypes, Publication, Unpublished
  <2> QED
    BY <2>1, <2>2, <2>3, <2>4, <2>5 DEF TypeOK
<1>2. LifeInv
  BY DEF LifeInv, Started, Operated, Watched, Before, Serving, Unpublished
<1>3. NoLostOrder /\ ActInv /\ FirstStopNamed /\ StopShown
  BY DEF NoLostOrder, ActInv, FirstStopNamed, StopShown, Serving
<1>4. StopInv
  BY DEF StopInv
<1>5. OldestFirst
  BY DEF OldestFirst
<1>6. ShownInv
  BY DEF ShownInv, Serving, Unpublished
<1> QED
  BY <1>1, <1>2, <1>3, <1>4, <1>5, <1>6 DEF ServiceInv

(* Every step of every thread keeps the invariant.                         *)
LEMMA StepInv == ServiceInv /\ [Next]_vars => ServiceInv'
<1> SUFFICES ASSUME ServiceInv, [Next]_vars PROVE ServiceInv'
  OBVIOUS
<1>1. TypeOK'
  BY LifeTypesStep, ChannelTypesStep, OrderTypesStep, NodeTypesStep,
     ShownTypesStep DEF TypeOK
<1>2. LifeInv' /\ NoLostOrder' /\ ActInv'
  BY LifeStep, NoLostOrderStep, ActStep
<1>3. StopInv' /\ FirstStopNamed' /\ OldestFirst'
  BY StopStep, FirstStopStep, OldestFirstStep
<1>4. ShownInv' /\ StopShown'
  BY ShownStep, StopShownStep
<1> QED
  BY <1>1, <1>2, <1>3, <1>4 DEF ServiceInv

(* The inductive invariant of run::serve and of the threads that tell it:  *)
(* it holds in every state of every run, for any orders and stoppers.      *)
THEOREM ServiceInvariant == Spec => []ServiceInv
<1>1. Init => ServiceInv
  BY InitInv
<1>2. ServiceInv /\ [Next]_vars => ServiceInv'
  BY StepInv
<1> QED
  BY <1>1, <1>2, PTL DEF Spec

(* No order is forgotten: the loop of run.rs served never waits over an    *)
(* order that nobody will tell it of.                                      *)
THEOREM ServiceForgetsNoOrder == Spec => []NoLostOrder
<1>1. ServiceInv => NoLostOrder
  BY DEF ServiceInv
<1> QED
  BY <1>1, ServiceInvariant, PTL

(* No act goes unpublished: run.rs hear loses no act of the listener.      *)
THEOREM ServiceForgetsNoAct == Spec => []NoLostAct
<1>1. ServiceInv => NoLostAct
  BY DEF ServiceInv, ActInv, NoLostAct, Serving
<1> QED
  BY <1>1, ServiceInvariant, PTL

(* A node reported running is up, watched, operated and published          *)
(* (run.rs serve).                                                         *)
THEOREM ServiceReadyIsTrue == Spec => []ReadyIsTrue
<1>1. ServiceInv => ReadyIsTrue
  BY DEF ServiceInv, LifeInv, ReadyIsTrue, Started, Operated, Watched, Serving
<1> QED
  BY <1>1, ServiceInvariant, PTL

(* Whichever way run.rs serve returns, nothing is left running or held.    *)
THEOREM ServiceEndsClean == Spec => []EndsClean
<1>1. ServiceInv => EndsClean
  BY DEF ServiceInv, TypeOK, OrderTypes, LifeInv, EndsClean, Started,
         Operated, Watched, Serving
<1> QED
  BY <1>1, ServiceInvariant, PTL

(* The stop record names the stop sent first (run.rs hear).                *)
THEOREM ServiceNamesFirstStop == Spec => []FirstStopNamed
<1>1. ServiceInv => FirstStopNamed
  BY DEF ServiceInv
<1> QED
  BY <1>1, ServiceInvariant, PTL

(* Every order is answered once and oldest first, over restarts            *)
(* (orders.rs take).                                                       *)
THEOREM ServiceOldestFirst == Spec => []OldestFirst
<1>1. ServiceInv => OldestFirst
  BY DEF ServiceInv
<1> QED
  BY <1>1, ServiceInvariant, PTL

(* A drained node's board says it stopped (publication.rs stopped).        *)
THEOREM ServiceShowsStop == Spec => []StopShown
<1>1. ServiceInv => StopShown
  BY DEF ServiceInv
<1> QED
  BY <1>1, ServiceInvariant, PTL

(* No step takes back what snapshot.xmip shows of the node, a restart      *)
(* included (publication.rs write, stopped).                               *)
THEOREM ServiceFileNeverBack == Spec => FileNeverBack
<1>1. ServiceInv /\ [Next]_vars => [file'.shows >= file.shows]_vars
  <2> SUFFICES ASSUME ServiceInv, [Next]_vars PROVE file'.shows >= file.shows
    OBVIOUS
  <2>0. file \in Publication /\ file.shows \in Nat
    BY DEF ServiceInv, TypeOK, ShownTypes, Publication
  <2>1. CASE Write
    <3>1. file.shows <= text /\ text \in Nat
      BY <2>1 DEF Write, ServiceInv, ShownInv, TypeOK, ShownTypes
    <3>2. file'.shows = text \/ file' = file
      BY <2>1 DEF Write
    <3> QED
      BY <2>0, <3>1, <3>2
  <2>2. CASE Stopped
    <3>1. file.shows <= last /\ last \in Nat
      BY <2>2 DEF Stopped, ServiceInv, ShownInv, TypeOK, ShownTypes
    <3>2. file'.shows = last \/ file' = file
      BY <2>2 DEF Stopped
    <3> QED
      BY <2>0, <3>1, <3>2
  <2>3. CASE ~Write /\ ~Stopped
    <3>1. file' = file
      BY <2>3 DEF Next, Thread, vars, shownVars, TakeStopHandler, Start,
         Operate, Authorize, Watch, Refuse, Declare, Ready, Take, Apply,
         AllApplied, Due, Hear, HearMore, Heard, Stopping, Drain, StartAgain,
         Stop, Leave, Notify, Act, TellAct
    <3> QED
      BY <2>0, <3>1
  <2> QED
    BY <2>1, <2>2, <2>3
<1> QED
  BY <1>1, ServiceInvariant, PTL DEF Spec, FileNeverBack

------------------------------------------------------------------------------
(* A step of the promise, or one that leaves what it sees alone.           *)
PromiseNext == [Promise!Next]_<<Life, batch \o dir, handled>>

(* Every step of the service is a step of its promise, or none.            *)
LEMMA PromiseStep == ServiceInv /\ [Next]_vars => PromiseNext
<1> SUFFICES ASSUME ServiceInv, [Next]_vars PROVE PromiseNext
  OBVIOUS
<1> USE ServiceAssumption DEF PromiseNext, ServiceInv,
        TypeOK, LifeTypes, OrderTypes,
        ShownTypes, Publication, LifeInv, Serving, Started, Operated, Watched,
        Before, Life, lifeVars, channelVars, orderVars, nodeVars, loopVars,
        shownVars
<1>1. CASE TakeStopHandler
  <2>1. CASE Refuse
    <3>1. /\ Life = "starting" /\ Life' = "refused"
          /\ UNCHANGED <<batch, dir, handled>>
      BY <1>1, <2>1 DEF TakeStopHandler, Refuse, Return
    <3> QED
      BY <3>1 DEF Promise!Next, Promise!Settle
  <2>2. CASE ~Refuse
    <3>1. UNCHANGED <<Life, batch, dir, handled>>
      BY <1>1, <2>2 DEF TakeStopHandler
    <3> QED
      BY <3>1
  <2> QED
    BY <2>1, <2>2
<1>2. CASE Start
  <2>1. CASE Refuse
    <3>1. /\ Life = "starting" /\ Life' = "refused"
          /\ UNCHANGED <<batch, dir, handled>>
      BY <1>2, <2>1 DEF Start, Refuse, Return
    <3> QED
      BY <3>1 DEF Promise!Next, Promise!Settle
  <2>2. CASE ~Refuse
    <3>1. UNCHANGED <<Life, batch, dir, handled>>
      BY <1>2, <2>2 DEF Start
    <3> QED
      BY <3>1
  <2> QED
    BY <2>1, <2>2
<1>3. CASE Operate
  <2>1. CASE Refuse
    <3>1. /\ Life = "starting" /\ Life' = "refused"
          /\ UNCHANGED <<batch, dir, handled>>
      BY <1>3, <2>1 DEF Operate, Refuse, Return
    <3> QED
      BY <3>1 DEF Promise!Next, Promise!Settle
  <2>2. CASE ~Refuse
    <3>1. UNCHANGED <<Life, batch, dir, handled>>
      BY <1>3, <2>2 DEF Operate
    <3> QED
      BY <3>1
  <2> QED
    BY <2>1, <2>2
<1>4. CASE Authorize
  <2>1. CASE Refuse
    <3>1. /\ Life = "starting" /\ Life' = "refused"
          /\ UNCHANGED <<batch, dir, handled>>
      BY <1>4, <2>1 DEF Authorize, Refuse, Return
    <3> QED
      BY <3>1 DEF Promise!Next, Promise!Settle
  <2>2. CASE ~Refuse
    <3>1. UNCHANGED <<Life, batch, dir, handled>>
      BY <1>4, <2>2 DEF Authorize
    <3> QED
      BY <3>1
  <2> QED
    BY <2>1, <2>2
<1>5. CASE Watch
  <2>1. CASE Refuse
    <3>1. /\ Life = "starting" /\ Life' = "refused"
          /\ UNCHANGED <<batch, dir, handled>>
      BY <1>5, <2>1 DEF Watch, Refuse, Return
    <3> QED
      BY <3>1 DEF Promise!Next, Promise!Settle
  <2>2. CASE ~Refuse
    <3>1. UNCHANGED <<Life, batch, dir, handled>>
      BY <1>5, <2>2 DEF Watch
    <3> QED
      BY <3>1
  <2> QED
    BY <2>1, <2>2
<1>6. CASE Declare
  <2>1. UNCHANGED <<Life, batch, dir, handled>>
    BY <1>6 DEF Declare
  <2> QED
    BY <2>1
<1>7. CASE Write
  <2>1. UNCHANGED <<Life, batch, dir, handled>>
    BY <1>7 DEF Write
  <2> QED
    BY <2>1
<1>8. CASE Ready
  <2>1. /\ Life = "starting" /\ Life' = "serving"
        /\ UNCHANGED <<batch, dir, handled>>
    BY <1>8 DEF Ready
  <2> QED
    BY <2>1 DEF Promise!Next, Promise!Settle
<1>9. CASE Take
  <2>1. /\ batch = <<>> /\ dir \in Seq(Order)
        /\ <<>> \o dir = dir /\ dir \o <<>> = dir
    BY <1>9, ConcatEmptySeq DEF Take
  <2>2. batch' \o dir' = batch \o dir /\ handled' = handled
    BY <1>9, <2>1 DEF Take
  <2>3. Life' = Life
    BY <1>9 DEF Take
  <2> QED
    BY <2>2, <2>3
<1>10. CASE Apply
  <2>1. /\ batch \in Seq(Order) /\ dir \in Seq(Order) /\ batch # <<>>
        /\ batch' = Tail(batch) /\ dir' = dir
        /\ handled' = Append(handled, Head(batch))
    BY <1>10 DEF Apply
  <2>2. /\ batch \o dir # <<>>
        /\ Head(batch \o dir) = Head(batch)
        /\ Tail(batch \o dir) = Tail(batch) \o dir
    BY <2>1, HeadOfConcat
  <2>3. Life = "serving" /\ Life' = Life
    BY <1>10 DEF Apply
  <2>4. Promise!Answer
    BY <2>1, <2>2, <2>3 DEF Promise!Answer
  <2> QED
    BY <2>4 DEF Promise!Next
<1>11. CASE AllApplied
  <2>1. UNCHANGED <<Life, batch, dir, handled>>
    BY <1>11 DEF AllApplied
  <2> QED
    BY <2>1
<1>12. CASE Due
  <2>1. UNCHANGED <<Life, batch, dir, handled>>
    BY <1>12 DEF Due
  <2> QED
    BY <2>1
<1>13. CASE Hear
  <2>1. UNCHANGED <<Life, batch, dir, handled>>
    BY <1>13 DEF Hear, Heard
  <2> QED
    BY <2>1
<1>14. CASE HearMore
  <2>1. UNCHANGED <<Life, batch, dir, handled>>
    BY <1>14 DEF HearMore, Heard
  <2> QED
    BY <2>1
<1>15. CASE Stopping
  <2>1. /\ Life = "serving" /\ Life' = "draining"
        /\ UNCHANGED <<batch, dir, handled>>
    BY <1>15 DEF Stopping
  <2> QED
    BY <2>1 DEF Promise!Next, Promise!Stop
<1>16. CASE Drain
  <2>1. UNCHANGED <<Life, batch, dir, handled>>
    BY <1>16 DEF Drain
  <2> QED
    BY <2>1
<1>17. CASE Stopped
  <2>1. /\ Life = "draining" /\ Life' = "stopped"
        /\ UNCHANGED <<batch, dir, handled>>
    BY <1>17 DEF Stopped, Return
  <2> QED
    BY <2>1 DEF Promise!Next, Promise!Drained
<1>18. CASE StartAgain
  <2>1. /\ Life \in {"stopped", "refused"} /\ Life' = "starting"
        /\ UNCHANGED <<batch, dir, handled>>
    BY <1>18 DEF StartAgain, Unpublished
  <2> QED
    BY <2>1 DEF Promise!Next, Promise!Again
<1>19. ASSUME NEW s \in Stopper, Stop(s) PROVE PromiseNext
  <2>1. UNCHANGED <<Life, batch, dir, handled>>
    BY <1>19 DEF Stop
  <2> QED
    BY <2>1
<1>20. ASSUME NEW o \in Order, Leave(o) PROVE PromiseNext
  <2>1. Life' = Life /\ handled' = handled
    BY <1>20 DEF Leave
  <2>2. /\ batch \in Seq(Order) /\ dir \in Seq(Order)
        /\ batch' = batch /\ dir' = Append(dir, o)
    BY <1>20 DEF Leave
  <2>3. batch \o Append(dir, o) = Append(batch \o dir, o)
    BY <2>2, ConcatAppend
  <2>4. Promise!Leave(o)
    BY <2>1, <2>2, <2>3 DEF Promise!Leave
  <2> QED
    BY <2>4 DEF Promise!Next
<1>21. CASE Notify
  <2>1. UNCHANGED <<Life, batch, dir, handled>>
    BY <1>21 DEF Notify
  <2> QED
    BY <2>1
<1>22. CASE Act
  <2>1. UNCHANGED <<Life, batch, dir, handled>>
    BY <1>22 DEF Act
  <2> QED
    BY <2>1
<1>23. CASE TellAct
  <2>1. UNCHANGED <<Life, batch, dir, handled>>
    BY <1>23 DEF TellAct
  <2> QED
    BY <2>1
<1>24. CASE UNCHANGED vars
  BY <1>24 DEF vars
<1> QED
  BY <1>1, <1>2, <1>3, <1>4, <1>5, <1>6, <1>7, <1>8, <1>9, <1>10, <1>11,
     <1>12, <1>13, <1>14, <1>15, <1>16, <1>17, <1>18, <1>19, <1>20, <1>21,
     <1>22, <1>23, <1>24
     DEF Next, Thread

(* xmip-service implements its promise: seen from outside, a run is        *)
(* accepted or refused, serves, drains and stops, and its orders are       *)
(* answered one by one, oldest first (run.rs serve).                       *)
THEOREM ServiceKeepsPromise == Spec => PromiseSteps
<1>1. Init => Promise!Init
  BY DEF Init, Promise!Init, Life
<1>2. ServiceInv /\ [Next]_vars => [Promise!Next]_(Promise!promiseVars)
  BY PromiseStep DEF PromiseNext, Promise!promiseVars
<1> QED
  BY <1>1, <1>2, ServiceInvariant, PTL
     DEF Spec, PromiseSteps, Promise!Spec
==============================================================================

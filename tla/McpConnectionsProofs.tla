------------------------ MODULE McpConnectionsProofs ------------------------
(***************************************************************************)
(* Answers reach the calls that asked for them, the end of a server's      *)
(* output reaches every call, and the wait for stopped servers is sound,   *)
(* for any number of calls, servers and waiters.                           *)
(***************************************************************************)
EXTENDS McpConnections, TLAPS

-----------------------------------------------------------------------------
(***************************************************************************)
(* The two halves of the module: calls and readers, stopping and waiting.  *)
(***************************************************************************)
CallType ==
    /\ step \in [Calls -> Steps]
    /\ id \in [Calls -> Ids \cup {0}]
    /\ reply \in [Calls -> Maybe]
    /\ outcome \in [Calls -> Outcomes]
    /\ pending \in [Servers -> [Ids -> Maybe]]
    /\ heard \in [Servers -> SUBSET (Ids \X Calls)]
    /\ reader \in [Servers -> {"reading", "carrying", "ended", "cleared"}]
    /\ hand \in [Servers -> Maybe \X Maybe]

\* Numbers are given once on a connection.
IdsAreFresh ==
    /\ nextId \in [Servers -> Nat \ {0}]
    /\ \A c \in Calls : id[c] \in Nat /\ id[c] < nextId[Home[c]]

IdsAreUnique ==
    /\ \A c \in Calls : step[c] = "idle" <=> id[c] = 0
    /\ \A c, d \in Calls : Home[c] = Home[d] /\ id[c] = id[d] /\ id[c] # 0 => c = d

\* What is registered, heard or carried belongs to the call with that number.
PendingMatches ==
    \A s \in Servers : \A i \in Ids : pending[s][i] # Nobody =>
        Home[pending[s][i]] = s /\ id[pending[s][i]] = i
HeardMatches ==
    \A s \in Servers : \A line \in heard[s] :
        Home[line[2]] = s /\ id[line[2]] = line[1]
HandMatches ==
    \A s \in Servers :
        /\ hand[s][1] = hand[s][2]
        /\ hand[s][1] # Nobody => Home[hand[s][1]] = s /\ step[hand[s][1]] # "idle"
        /\ reader[s] = "carrying" => hand[s][1] # Nobody

\* A registered call has no answer yet, and it is still in its request or was
\* dropped.
InRequest(c) ==
    \/ step[c] \in {"registered", "queued", "writing", "waiting", "late"}
    \/ step[c] = "ended" /\ outcome[c] = "dropped"
RegisteredCallsWait ==
    /\ \A s \in Servers : \A i \in Ids : pending[s][i] # Nobody =>
          /\ reply[pending[s][i]] = Nobody /\ hand[s][1] # pending[s][i]
          /\ InRequest(pending[s][i])
    /\ \A c \in Calls : outcome[c] # "none" => step[c] = "ended"
    /\ \A c \in Calls : step[c] = "idle" => reply[c] = Nobody

CallInv ==
    /\ CallType /\ IdsAreFresh /\ IdsAreUnique
    /\ PendingMatches /\ HeardMatches /\ HandMatches
    /\ RegisteredCallsWait /\ AnswersAreTheirOwn /\ EndReachesEveryCall

ExitType ==
    /\ alive \in [Servers -> BOOLEAN]
    /\ conn \in [Servers -> {"held", "stopping", "leaving", "gone"}]
    /\ wait \in [Waiters -> {"idle", "counting", "counted", "parked", "ok", "expired"}]
    /\ told \in [Waiters -> BOOLEAN]

\* Only a process that is gone leaves the list, and a waiter that counted
\* some server is told when it does.
ExitInv ==
    /\ ExitType
    /\ \A s \in Servers : conn[s] \in {"leaving", "gone"} => ~alive[s]
    /\ \A w \in Waiters : wait[w] \in {"counted", "parked"} /\ ~told[w] =>
          \E s \in Under[w] : conn[s] \in {"stopping", "leaving"}

-----------------------------------------------------------------------------
LEMMA ExitInvInit == Init => ExitInv
BY DEF Init, ExitInv, ExitType

LEMMA CallsLeaveExits == ASSUME NEW c \in Calls, CallNext(c) PROVE UNCHANGED exitVars
BY DEF CallNext, Register, CheckClosed, TakeInput, Write, WriteFails, Answered, CutOff,
       Expires, Forget, Report, Dropped

LEMMA ExitInvNext == ExitInv /\ [Next]_vars => ExitInv'
<1> SUFFICES ASSUME ExitInv, [Next]_vars PROVE ExitInv'
  OBVIOUS
<1>0. CASE UNCHANGED exitVars
  BY <1>0 DEF exitVars, ExitInv, ExitType
<1>1. CASE \E c \in Calls : CallNext(c)
  BY <1>1, <1>0, CallsLeaveExits
<1>2. ASSUME NEW s \in Servers, ServerNext(s) PROVE ExitInv'
  <2>1. CASE Route(s) \/ Send(s) \/ OutputEnds(s) \/ FailPending(s)
    BY <2>1, <1>0 DEF Route, Send, OutputEnds, FailPending
  <2>2. CASE Exit(s)
    BY <2>2 DEF Exit, ExitInv, ExitType
  <2>3. CASE Stop(s)
    BY <2>3, UnderAssumption DEF Stop, ExitInv, ExitType
  <2>4. CASE Reaped(s)
    BY <2>4, UnderAssumption DEF Reaped, ExitInv, ExitType
  <2>5. CASE NotifyExited(s)
    <3> USE <2>5 DEF NotifyExited
    <3>1. ExitType'
      BY DEF ExitInv, ExitType
    <3>2. \A t \in Servers : conn'[t] \in {"leaving", "gone"} => ~alive'[t]
      BY DEF ExitInv, ExitType
    <3>3. ASSUME NEW w \in Waiters, wait'[w] \in {"counted", "parked"}, ~told'[w]
          PROVE  FALSE
      BY <3>3 DEF ExitInv, ExitType, Registered
    <3> QED
      BY <3>1, <3>2, <3>3 DEF ExitInv
  <2> QED
    BY <1>2, <2>1, <2>2, <2>3, <2>4, <2>5 DEF ServerNext
<1>3. ASSUME NEW w \in Waiters, WaiterNext(w) PROVE ExitInv'
  <2>1. CASE Enable(w)
    BY <2>1 DEF Enable, ExitInv, ExitType
  <2>2. CASE Count(w)
    BY <2>2, UnderAssumption DEF Count, StoppingUnder, ExitInv, ExitType
  <2>3. CASE Sleep(w)
    BY <2>3 DEF Sleep, ExitInv, ExitType
  <2>4. CASE GiveUp(w)
    BY <2>4 DEF GiveUp, ExitInv, ExitType
  <2> QED
    BY <1>3, <2>1, <2>2, <2>3, <2>4 DEF WaiterNext
<1>4. CASE UNCHANGED vars
  BY <1>4, <1>0 DEF vars
<1> QED
  BY <1>1, <1>2, <1>3, <1>4 DEF Next

LEMMA ExitInvariant == Spec => []ExitInv
BY ExitInvInit, ExitInvNext, PTL DEF Spec

\* An exit between a waiter's count and its sleep is never missed, for any
\* number of servers and waiters.
THEOREM NoExitIsMissed == Spec => []ExitsAreNotMissed
<1>1. ExitInv => ExitsAreNotMissed
  BY DEF ExitInv, ExitsAreNotMissed
<1> QED
  BY <1>1, ExitInvariant, PTL

\* A directory that is reported free is used by no server stopped before.
THEOREM FreeMeansUnused == Spec => FreeDirectoriesAreFree
<1>1. ASSUME ExitInv, [Next]_vars, NEW w \in Waiters,
             wait[w] = "counting", wait'[w] = "ok",
             NEW s \in Under[w], conn[s] # "held"
      PROVE  ~alive[s]
  <2>0. s \in Servers
    BY UnderAssumption
  <2>1. Count(w)
    <3>1. CASE \E c \in Calls : CallNext(c)
      BY <3>1, <1>1, CallsLeaveExits DEF exitVars
    <3>2. CASE \E t \in Servers : ServerNext(t)
      BY <3>2, <1>1 DEF ServerNext, Route, Send, OutputEnds, FailPending, Exit, Stop, Reaped,
                        NotifyExited, exitVars
    <3>3. CASE \E v \in Waiters : WaiterNext(v)
      BY <3>3, <1>1 DEF WaiterNext, Enable, Count, Sleep, GiveUp, ExitInv, ExitType
    <3>4. CASE UNCHANGED vars
      BY <3>4, <1>1 DEF vars, exitVars
    <3> QED
      BY <1>1, <3>1, <3>2, <3>3, <3>4 DEF Next
  <2>2. conn[s] # "stopping"
    BY <2>1, <1>1 DEF Count, StoppingUnder, ExitInv, ExitType
  <2> QED
    BY <2>0, <2>2, <1>1 DEF ExitInv, ExitType
<1>2. ExitInv /\ [Next]_vars =>
        [\A w \in Waiters : wait[w] = "counting" /\ wait'[w] = "ok" =>
            \A s \in Under[w] : conn[s] # "held" => ~alive[s]]_vars
  BY <1>1
<1> QED
  BY <1>2, ExitInvariant, PTL DEF Spec, FreeDirectoriesAreFree


-----------------------------------------------------------------------------
(***************************************************************************)
(* The calls and the reader.                                               *)
(***************************************************************************)
LEMMA IdFacts == 0 \notin Ids /\ \A i \in Ids : i \in Nat
BY CallsAssumption DEF Ids

LEMMA CallInvInit == Init => CallInv
<1> SUFFICES ASSUME Init PROVE CallInv
  OBVIOUS
<1>1. CallType
  BY DEF Init, CallType, Steps, Outcomes, Maybe, Empty
<1>2. IdsAreFresh
  BY HomeAssumption DEF Init, IdsAreFresh
<1>3. IdsAreUnique /\ PendingMatches /\ HeardMatches /\ HandMatches
  BY DEF Init, IdsAreUnique, PendingMatches, HeardMatches, HandMatches, Empty
<1>4. RegisteredCallsWait /\ AnswersAreTheirOwn /\ EndReachesEveryCall
  BY DEF Init, RegisteredCallsWait, AnswersAreTheirOwn, EndReachesEveryCall, Empty
<1> QED
  BY <1>1, <1>2, <1>3, <1>4 DEF CallInv

LEMMA CallInvUnchanged ==
    ASSUME CallInv, UNCHANGED <<callVars, connVars>> PROVE CallInv'
BY DEF callVars, connVars, CallInv, CallType, IdsAreFresh, IdsAreUnique, PendingMatches,
       HeardMatches, HandMatches, RegisteredCallsWait, InRequest, AnswersAreTheirOwn,
       EndReachesEveryCall

(***************************************************************************)
(* A call that has its number goes on to another step, perhaps taking its  *)
(* entry out of the map, perhaps heard by the server.                      *)
(***************************************************************************)
GoesOn(c, to, how) ==
    /\ step[c] # "idle"
    /\ to \in Steps \ {"idle"} /\ how \in Outcomes
    /\ step' = [step EXCEPT ![c] = to]
    /\ outcome' = [outcome EXCEPT ![c] = how]
    /\ how # "none" => to = "ended"
    /\ UNCHANGED <<id, reply, nextId, reader, hand>>
    /\ \/ heard' = heard
       \/ heard' = [heard EXCEPT ![Home[c]] = @ \cup {<<id[c], c>>}]
    /\ \/ pending' = pending
       \/ pending' = [pending EXCEPT ![Home[c]][id[c]] = Nobody]
    /\ \A i \in Ids : pending'[Home[c]][i] = c =>
          /\ reader[Home[c]] # "cleared"
          /\ \/ to \in {"queued", "writing", "waiting", "late"}
             \/ to = "ended" /\ how = "dropped"

LEMMA CallMoves ==
    ASSUME CallInv, NEW c \in Calls, NEW to, NEW how, GoesOn(c, to, how)
    PROVE  CallInv'
<1>g. /\ step[c] # "idle"
      /\ to \in Steps \ {"idle"} /\ how \in Outcomes
      /\ step' = [step EXCEPT ![c] = to]
      /\ outcome' = [outcome EXCEPT ![c] = how]
      /\ how # "none" => to = "ended"
      /\ UNCHANGED <<id, reply, nextId, reader, hand>>
  BY DEF GoesOn
<1>gh. \/ heard' = heard
       \/ heard' = [heard EXCEPT ![Home[c]] = @ \cup {<<id[c], c>>}]
  BY DEF GoesOn
<1>gp. \/ pending' = pending
       \/ pending' = [pending EXCEPT ![Home[c]][id[c]] = Nobody]
  BY DEF GoesOn
<1>gc. \A i \in Ids : pending'[Home[c]][i] = c =>
          /\ reader[Home[c]] # "cleared"
          /\ \/ to \in {"queued", "writing", "waiting", "late"}
             \/ to = "ended" /\ how = "dropped"
  BY DEF GoesOn
<1>i. /\ CallType /\ IdsAreFresh /\ IdsAreUnique
      /\ PendingMatches /\ HeardMatches /\ HandMatches
      /\ RegisteredCallsWait /\ AnswersAreTheirOwn /\ EndReachesEveryCall
  BY DEF CallInv
<1>h. Home[c] \in Servers
  BY HomeAssumption
<1>j. id[c] \in Ids
  BY <1>i, <1>g DEF CallType, IdsAreUnique
<1>p. \A s \in Servers : \A i \in Ids : pending'[s][i] \in {pending[s][i], Nobody}
  BY <1>i, <1>h, <1>j, <1>gp DEF CallType
<1>1. CallType'
  <2>1. pending' \in [Servers -> [Ids -> Maybe]]
    <3>1. CASE pending' = pending
      BY <3>1, <1>i DEF CallType
    <3>2. CASE pending' = [pending EXCEPT ![Home[c]][id[c]] = Nobody]
      BY <3>2, <1>i, <1>h, <1>j DEF CallType, Maybe
    <3> QED
      BY <3>1, <3>2, <1>gp
  <2>2. heard' \in [Servers -> SUBSET (Ids \X Calls)]
    BY <1>i, <1>h, <1>j, <1>gh DEF CallType
  <2> QED
    BY <1>i, <1>g, <2>1, <2>2 DEF CallType
<1>2. IdsAreFresh'
  BY <1>i, <1>g DEF IdsAreFresh
<1>3. IdsAreUnique'
  BY <1>i, <1>g DEF IdsAreUnique, CallType
<1>4. PendingMatches'
  BY <1>i, <1>p, <1>g DEF PendingMatches
<1>5. HeardMatches'
  BY <1>i, <1>h, <1>g, <1>gh DEF HeardMatches, CallType
<1>6. HandMatches'
  BY <1>i, <1>g DEF HandMatches, CallType
<1>7. RegisteredCallsWait'
  <2>1. ASSUME NEW s \in Servers, NEW i \in Ids, pending'[s][i] # Nobody
        PROVE  /\ reply'[pending'[s][i]] = Nobody /\ hand'[s][1] # pending'[s][i]
               /\ InRequest(pending[s][i])'
    <3>1. pending'[s][i] = pending[s][i] /\ pending[s][i] # Nobody /\ pending[s][i] \in Calls
      BY <2>1, <1>p, <1>i DEF CallType, Maybe
    <3>2. /\ reply[pending[s][i]] = Nobody /\ hand[s][1] # pending[s][i]
          /\ InRequest(pending[s][i])
      BY <3>1, <1>i DEF RegisteredCallsWait
    <3>3. CASE pending[s][i] = c
      <4>1. s = Home[c]
        BY <3>1, <3>3, <1>i DEF PendingMatches
      <4> QED
        BY <3>1, <3>2, <3>3, <4>1, <1>i, <1>g, <1>gc DEF InRequest, CallType
    <3>4. CASE pending[s][i] # c
      BY <3>1, <3>2, <3>4, <1>i, <1>g DEF InRequest, CallType
    <3> QED
      BY <3>3, <3>4
  <2>2. \A d \in Calls : outcome'[d] # "none" => step'[d] = "ended"
    BY <1>i, <1>g DEF RegisteredCallsWait, CallType
  <2>3. \A d \in Calls : step'[d] = "idle" => reply'[d] = Nobody
    BY <1>i, <1>g DEF RegisteredCallsWait, CallType
  <2> QED
    BY <2>1, <2>2, <2>3 DEF RegisteredCallsWait
<1>8. AnswersAreTheirOwn'
  BY <1>i, <1>g DEF AnswersAreTheirOwn
<1>9. EndReachesEveryCall'
  <2> SUFFICES ASSUME NEW s \in Servers, reader[s] = "cleared", NEW i \in Ids,
                      pending'[s][i] # Nobody
               PROVE  step'[pending'[s][i]] = "registered"
    BY <1>g DEF EndReachesEveryCall
  <2>1. pending'[s][i] = pending[s][i] /\ pending[s][i] # Nobody /\ pending[s][i] \in Calls
    BY <1>p, <1>i DEF CallType, Maybe
  <2>2. pending[s][i] = c => s = Home[c]
    BY <2>1, <1>i DEF PendingMatches
  <2>3. pending[s][i] # c
    BY <2>1, <2>2, <1>gc
  <2> QED
    BY <2>1, <2>3, <1>i, <1>g DEF EndReachesEveryCall, CallType
<1> QED
  BY <1>1, <1>2, <1>3, <1>4, <1>5, <1>6, <1>7, <1>8, <1>9 DEF CallInv

\* A registered call's entry is under its number, and a call in the map after
\* the end of the output has not been checked yet.
LEMMA EntryFacts ==
    ASSUME CallInv, NEW c \in Calls, step[c] # "idle"
    PROVE  /\ id[c] \in Ids /\ Home[c] \in Servers
           /\ outcome[c] \in Outcomes
           /\ step[c] # "ended" => outcome[c] = "none"
           /\ \A i \in Ids : pending[Home[c]][i] = c =>
                 /\ i = id[c] /\ reply[c] = Nobody /\ InRequest(c)
                 /\ step[c] # "registered" => reader[Home[c]] # "cleared"
BY HomeAssumption, CallsAssumption
   DEF CallInv, CallType, IdsAreUnique, PendingMatches, RegisteredCallsWait,
       EndReachesEveryCall, Outcomes

\* Once its entry is taken out, the call is no longer in the map.
LEMMA Unregistered ==
    ASSUME CallInv, NEW c \in Calls, step[c] # "idle", Unregisters(c)
    PROVE  \A i \in Ids : pending'[Home[c]][i] # c
<1>1. /\ id[c] \in Ids /\ Home[c] \in Servers
      /\ \A i \in Ids : pending[Home[c]][i] = c => i = id[c]
  BY EntryFacts
<1>2. pending \in [Servers -> [Ids -> Maybe]]
  BY DEF CallInv, CallType
<1> QED
  BY <1>1, <1>2, CallsAssumption DEF Unregisters

LEMMA CallNextKeepsCallInv ==
    ASSUME CallInv, NEW c \in Calls, CallNext(c), ~Register(c)
    PROVE  CallInv'
<1>t. /\ step \in [Calls -> Steps] /\ outcome \in [Calls -> Outcomes]
      /\ heard \in [Servers -> SUBSET (Ids \X Calls)]
  BY DEF CallInv, CallType
<1>o. outcome = [outcome EXCEPT ![c] = outcome[c]]
  BY <1>t
<1>s. Home[c] \in Servers
  BY HomeAssumption
<1>1. CASE CheckClosed(c)
  <2>0. step[c] = "registered" /\ outcome[c] = "none"
    BY <1>1, EntryFacts DEF CheckClosed
  <2>1. CASE Closed(Home[c]) /\ Moves(c, "reporting") /\ Unregisters(c)
    <3>1. "reporting" \in Steps \ {"idle"} /\ step' = [step EXCEPT ![c] = "reporting"]
      BY <2>1 DEF Moves, Steps
    <3>2. \A i \in Ids : pending'[Home[c]][i] # c
      BY <2>0, <2>1, Unregistered
    <3>3. pending' = [pending EXCEPT ![Home[c]][id[c]] = Nobody]
      BY <2>1 DEF Unregisters
    <3>4. outcome' = [outcome EXCEPT ![c] = "none"] /\ "none" \in Outcomes
      BY <1>1, <1>o, <2>0 DEF CheckClosed, Outcomes
    <3>5. UNCHANGED <<id, reply, nextId, reader, hand>> /\ heard' = heard
      BY <1>1 DEF CheckClosed
    <3>9. GoesOn(c, "reporting", "none")
      BY <2>0, <3>1, <3>2, <3>3, <3>4, <3>5 DEF GoesOn
    <3> QED
      BY <3>9, CallMoves
  <2>2. CASE ~Closed(Home[c]) /\ Moves(c, "queued") /\ UNCHANGED pending
    <3>1. "queued" \in Steps \ {"idle"} /\ step' = [step EXCEPT ![c] = "queued"]
      BY <2>2 DEF Moves, Steps
    <3>2. outcome' = [outcome EXCEPT ![c] = "none"] /\ "none" \in Outcomes
      BY <1>1, <1>o, <2>0 DEF CheckClosed, Outcomes
    <3>3. UNCHANGED <<id, reply, nextId, reader, hand>> /\ heard' = heard
      BY <1>1 DEF CheckClosed
    <3>4. reader[Home[c]] # "cleared"
      BY <2>2 DEF Closed
    <3>9. GoesOn(c, "queued", "none")
      BY <2>0, <2>2, <3>1, <3>2, <3>3, <3>4 DEF GoesOn
    <3> QED
      BY <3>9, CallMoves
  <2> QED
    BY <1>1, <2>1, <2>2 DEF CheckClosed
<1>2. CASE TakeInput(c)
  <2>1. step[c] = "queued" /\ "writing" \in Steps \ {"idle"}
        /\ step' = [step EXCEPT ![c] = "writing"]
    BY <1>2 DEF TakeInput, Moves, Steps
  <2>2. outcome' = [outcome EXCEPT ![c] = "none"] /\ "none" \in Outcomes
    BY <1>2, <1>o, <2>1, EntryFacts DEF TakeInput, Outcomes
  <2>3. UNCHANGED <<id, reply, nextId, reader, hand>> /\ heard' = heard /\ pending' = pending
    BY <1>2 DEF TakeInput
  <2>4. \A i \in Ids : pending[Home[c]][i] = c => reader[Home[c]] # "cleared"
    BY <2>1, EntryFacts
  <2>9. GoesOn(c, "writing", "none")
    BY <2>1, <2>2, <2>3, <2>4 DEF GoesOn
  <2> QED
    BY <2>9, CallMoves
<1>3. CASE Write(c)
  <2>1. step[c] = "writing" /\ "waiting" \in Steps \ {"idle"}
        /\ step' = [step EXCEPT ![c] = "waiting"]
    BY <1>3 DEF Write, Moves, Steps
  <2>2. outcome' = [outcome EXCEPT ![c] = "none"] /\ "none" \in Outcomes
    BY <1>3, <1>o, <2>1, EntryFacts DEF Write, Outcomes
  <2>3. UNCHANGED <<id, reply, nextId, reader, hand>> /\ pending' = pending
    BY <1>3 DEF Write
  <2>4. \/ heard' = heard
        \/ heard' = [heard EXCEPT ![Home[c]] = @ \cup {<<id[c], c>>}]
    BY <1>3, <1>t, <1>s DEF Write
  <2>5. \A i \in Ids : pending[Home[c]][i] = c => reader[Home[c]] # "cleared"
    BY <2>1, EntryFacts
  <2>9. GoesOn(c, "waiting", "none")
    BY <2>1, <2>2, <2>3, <2>4, <2>5 DEF GoesOn
  <2> QED
    BY <2>9, CallMoves
<1>4. CASE WriteFails(c)
  <2>0. step[c] = "writing" /\ outcome[c] = "none"
    BY <1>4, EntryFacts DEF WriteFails
  <2>1. \A i \in Ids : pending'[Home[c]][i] # c
    BY <1>4, <2>0, Unregistered DEF WriteFails
  <2>2. pending' = [pending EXCEPT ![Home[c]][id[c]] = Nobody]
    BY <1>4 DEF WriteFails, Unregisters
  <2>3. UNCHANGED <<id, reply, nextId, reader, hand>> /\ heard' = heard
    BY <1>4 DEF WriteFails
  <2>4. CASE Moves(c, "reporting") /\ UNCHANGED outcome
    <3>1. "reporting" \in Steps \ {"idle"} /\ step' = [step EXCEPT ![c] = "reporting"]
      BY <2>4 DEF Moves, Steps
    <3>2. outcome' = [outcome EXCEPT ![c] = "none"] /\ "none" \in Outcomes
      BY <2>4, <1>o, <2>0 DEF Outcomes
    <3>9. GoesOn(c, "reporting", "none")
      BY <2>0, <2>1, <2>2, <2>3, <3>1, <3>2 DEF GoesOn
    <3> QED
      BY <3>9, CallMoves
  <2>5. CASE Ends(c, "unwritten")
    <3>1. /\ "ended" \in Steps \ {"idle"} /\ step' = [step EXCEPT ![c] = "ended"]
          /\ outcome' = [outcome EXCEPT ![c] = "unwritten"] /\ "unwritten" \in Outcomes
      BY <2>5 DEF Ends, Moves, Steps, Outcomes
    <3>9. GoesOn(c, "ended", "unwritten")
      BY <2>0, <2>1, <2>2, <2>3, <3>1 DEF GoesOn
    <3> QED
      BY <3>9, CallMoves
  <2> QED
    BY <1>4, <2>4, <2>5 DEF WriteFails
<1>5. CASE Answered(c)
  <2>1. /\ step[c] = "waiting" /\ reply[c] # Nobody
        /\ "ended" \in Steps \ {"idle"} /\ step' = [step EXCEPT ![c] = "ended"]
        /\ outcome' = [outcome EXCEPT ![c] = "answered"] /\ "answered" \in Outcomes
    BY <1>5 DEF Answered, Ends, Moves, Steps, Outcomes
  <2>2. UNCHANGED <<id, reply, nextId, reader, hand>> /\ heard' = heard /\ pending' = pending
    BY <1>5 DEF Answered, connVars
  <2>3. \A i \in Ids : pending[Home[c]][i] # c
    BY <2>1, EntryFacts
  <2>9. GoesOn(c, "ended", "answered")
    BY <2>1, <2>2, <2>3 DEF GoesOn
  <2> QED
    BY <2>9, CallMoves
<1>6. CASE CutOff(c)
  <2>1. /\ step[c] = "waiting" /\ ~SenderLives(c)
        /\ "reporting" \in Steps \ {"idle"} /\ step' = [step EXCEPT ![c] = "reporting"]
    BY <1>6 DEF CutOff, Moves, Steps
  <2>2. outcome' = [outcome EXCEPT ![c] = "none"] /\ "none" \in Outcomes
    BY <1>6, <1>o, <2>1, EntryFacts DEF CutOff, Outcomes
  <2>3. UNCHANGED <<id, reply, nextId, reader, hand>> /\ heard' = heard /\ pending' = pending
    BY <1>6 DEF CutOff, connVars
  <2>4. \A i \in Ids : pending[Home[c]][i] # c
    BY <2>1 DEF SenderLives
  <2>9. GoesOn(c, "reporting", "none")
    BY <2>1, <2>2, <2>3, <2>4 DEF GoesOn
  <2> QED
    BY <2>9, CallMoves
<1>7. CASE Expires(c)
  <2>1. step[c] = "waiting" /\ "late" \in Steps \ {"idle"}
        /\ step' = [step EXCEPT ![c] = "late"]
    BY <1>7 DEF Expires, Moves, Steps
  <2>2. outcome' = [outcome EXCEPT ![c] = "none"] /\ "none" \in Outcomes
    BY <1>7, <1>o, <2>1, EntryFacts DEF Expires, Outcomes
  <2>3. UNCHANGED <<id, reply, nextId, reader, hand>> /\ heard' = heard /\ pending' = pending
    BY <1>7 DEF Expires, connVars
  <2>4. \A i \in Ids : pending[Home[c]][i] = c => reader[Home[c]] # "cleared"
    BY <2>1, EntryFacts
  <2>9. GoesOn(c, "late", "none")
    BY <2>1, <2>2, <2>3, <2>4 DEF GoesOn
  <2> QED
    BY <2>9, CallMoves
<1>8. CASE Forget(c)
  <2>1. /\ step[c] = "late"
        /\ "ended" \in Steps \ {"idle"} /\ step' = [step EXCEPT ![c] = "ended"]
        /\ outcome' = [outcome EXCEPT ![c] = "timeout"] /\ "timeout" \in Outcomes
    BY <1>8 DEF Forget, Ends, Moves, Steps, Outcomes
  <2>2. UNCHANGED <<id, reply, nextId, reader, hand>> /\ heard' = heard
    BY <1>8 DEF Forget
  <2>3. \A i \in Ids : pending'[Home[c]][i] # c
    BY <1>8, <2>1, Unregistered DEF Forget
  <2>4. pending' = [pending EXCEPT ![Home[c]][id[c]] = Nobody]
    BY <1>8 DEF Forget, Unregisters
  <2>9. GoesOn(c, "ended", "timeout")
    BY <2>1, <2>2, <2>3, <2>4 DEF GoesOn
  <2> QED
    BY <2>9, CallMoves
<1>9. CASE Report(c)
  <2>1. /\ step[c] = "reporting"
        /\ "ended" \in Steps \ {"idle"} /\ step' = [step EXCEPT ![c] = "ended"]
        /\ outcome' = [outcome EXCEPT ![c] = "closed"] /\ "closed" \in Outcomes
    BY <1>9 DEF Report, Ends, Moves, Steps, Outcomes
  <2>2. UNCHANGED <<id, reply, nextId, reader, hand>> /\ heard' = heard /\ pending' = pending
    BY <1>9 DEF Report, connVars
  <2>3. \A i \in Ids : pending[Home[c]][i] # c
    BY <2>1, EntryFacts DEF InRequest
  <2>9. GoesOn(c, "ended", "closed")
    BY <2>1, <2>2, <2>3 DEF GoesOn
  <2> QED
    BY <2>9, CallMoves
<1>10. CASE Dropped(c)
  <2>1. /\ step[c] \in {"queued", "writing", "waiting", "reporting"}
        /\ "ended" \in Steps \ {"idle"} /\ step' = [step EXCEPT ![c] = "ended"]
        /\ outcome' = [outcome EXCEPT ![c] = "dropped"] /\ "dropped" \in Outcomes
    BY <1>10 DEF Dropped, Ends, Moves, Steps, Outcomes
  <2>2. UNCHANGED <<id, reply, nextId, reader, hand>> /\ heard' = heard /\ pending' = pending
    BY <1>10 DEF Dropped
  <2>3. \A i \in Ids : pending[Home[c]][i] = c => reader[Home[c]] # "cleared"
    BY <2>1, EntryFacts
  <2>9. GoesOn(c, "ended", "dropped")
    BY <2>1, <2>2, <2>3 DEF GoesOn
  <2> QED
    BY <2>9, CallMoves
<1> QED
  BY <1>1, <1>2, <1>3, <1>4, <1>5, <1>6, <1>7, <1>8, <1>9, <1>10 DEF CallNext

LEMMA RegisterKeepsCallInv ==
    ASSUME CallInv, NEW c \in Calls, Register(c) PROVE CallInv'
<1>i. /\ CallType /\ IdsAreFresh /\ IdsAreUnique
      /\ PendingMatches /\ HeardMatches /\ HandMatches
      /\ RegisteredCallsWait /\ AnswersAreTheirOwn /\ EndReachesEveryCall
  BY DEF CallInv
<1> DEFINE s == Home[c]
           n == nextId[s]
<1>a. /\ s \in Servers /\ n \in Ids /\ n # 0 /\ step[c] = "idle" /\ id[c] = 0
      /\ reply[c] = Nobody
  BY <1>i, HomeAssumption, IdFacts
     DEF Register, IdsAreUnique, RegisteredCallsWait
<1>b. /\ step' = [step EXCEPT ![c] = "registered"]
      /\ id' = [id EXCEPT ![c] = n]
      /\ nextId' = [nextId EXCEPT ![s] = @ + 1]
      /\ pending' = [pending EXCEPT ![s][n] = c]
      /\ UNCHANGED <<reply, outcome, heard, reader, hand>>
  BY DEF Register, Moves, FreshId
<1>f. \A d \in Calls : Home[d] = s => id[d] # n
  BY <1>i, <1>a DEF IdsAreFresh
<1> HIDE DEF s, n
<1>p. \A t \in Servers : \A i \in Ids :
          \/ pending'[t][i] = pending[t][i] /\ (pending[t][i] # Nobody => pending[t][i] # c)
          \/ t = s /\ i = n /\ pending'[t][i] = c
  <2>1. \A t \in Servers : \A i \in Ids : pending[t][i] # c
    BY <1>i, <1>a, IdFacts, CallsAssumption DEF PendingMatches
  <2> QED
    BY <2>1, <1>b, <1>i, <1>a DEF CallType
<1>1. CallType'
  <2>1. pending' \in [Servers -> [Ids -> Maybe]]
    BY <1>b, <1>i, <1>a DEF CallType, Maybe
  <2>2. step' \in [Calls -> Steps]
    BY <1>b, <1>i DEF CallType, Steps
  <2>3. id' \in [Calls -> Ids \cup {0}]
    BY <1>b, <1>i, <1>a DEF CallType
  <2> QED
    BY <1>b, <1>i, <2>1, <2>2, <2>3 DEF CallType
<1>2. IdsAreFresh'
  <2>1. nextId' \in [Servers -> Nat \ {0}]
    BY <1>b, <1>i, <1>a DEF IdsAreFresh
  <2>2. ASSUME NEW d \in Calls PROVE id'[d] \in Nat /\ id'[d] < nextId'[Home[d]]
    <3>1. Home[d] \in Servers /\ nextId[Home[d]] \in Nat /\ id[d] \in Nat
          /\ id[d] < nextId[Home[d]]
      BY <1>i, HomeAssumption DEF IdsAreFresh
    <3>2. nextId'[Home[d]] \in {nextId[Home[d]], nextId[Home[d]] + 1}
      BY <3>1, <1>b, <1>i, <1>a DEF IdsAreFresh
    <3>3. CASE d = c
      <4>1. id'[d] = n /\ nextId'[Home[d]] = n + 1 /\ n \in Nat
        BY <3>1, <3>3, <1>b, <1>i, <1>a, IdFacts DEF s, n, IdsAreFresh, CallType
      <4> QED
        BY <4>1
    <3>4. CASE d # c
      <4>1. id'[d] = id[d]
        BY <3>4, <1>b, <1>i DEF CallType
      <4> QED
        BY <4>1, <3>1, <3>2
    <3> QED
      BY <3>3, <3>4
  <2> QED
    BY <2>1, <2>2 DEF IdsAreFresh
<1>3. IdsAreUnique'
  BY <1>a, <1>b, <1>f, <1>i DEF IdsAreUnique, CallType, s
<1>4. PendingMatches'
  BY <1>p, <1>b, <1>i DEF PendingMatches, CallType, Maybe, s
<1>5. HeardMatches'
  <2> SUFFICES ASSUME NEW t \in Servers, NEW line \in heard[t]
               PROVE  Home[line[2]] = t /\ id'[line[2]] = line[1]
    BY <1>b DEF HeardMatches
  <2>1. line[2] \in Calls /\ line[1] \in Ids
    BY <1>i DEF CallType
  <2>2. Home[line[2]] = t /\ id[line[2]] = line[1]
    BY <1>i DEF HeardMatches
  <2>3. line[2] # c
    BY <2>1, <2>2, <1>a, IdFacts
  <2> QED
    BY <2>1, <2>2, <2>3, <1>b, <1>i DEF CallType
<1>6. HandMatches'
  BY <1>b, <1>i DEF HandMatches, CallType
<1>7. RegisteredCallsWait'
  <2>1. ASSUME NEW t \in Servers, NEW i \in Ids, pending'[t][i] # Nobody
        PROVE  /\ reply'[pending'[t][i]] = Nobody /\ hand'[t][1] # pending'[t][i]
               /\ InRequest(pending[t][i])'
    <3>1. CASE pending'[t][i] = c
      <4>1. hand[t][1] # c
        BY <1>i, <1>a, CallsAssumption DEF HandMatches
      <4> QED
        BY <3>1, <4>1, <1>a, <1>b, <1>i DEF InRequest, CallType
    <3>2. CASE pending'[t][i] # c
      <4>1. pending'[t][i] = pending[t][i] /\ pending[t][i] \in Calls
        BY <3>2, <2>1, <1>p, <1>i DEF CallType, Maybe
      <4>2. /\ reply[pending[t][i]] = Nobody /\ hand[t][1] # pending[t][i]
            /\ InRequest(pending[t][i])
        BY <4>1, <2>1, <1>i DEF RegisteredCallsWait
      <4> QED
        BY <3>2, <4>1, <4>2, <1>b, <1>i DEF InRequest, CallType
    <3> QED
      BY <3>1, <3>2
  <2>2. \A d \in Calls : outcome'[d] # "none" => step'[d] = "ended"
    BY <1>a, <1>b, <1>i DEF RegisteredCallsWait, CallType
  <2>3. \A d \in Calls : step'[d] = "idle" => reply'[d] = Nobody
    BY <1>b, <1>i DEF RegisteredCallsWait, CallType
  <2> QED
    BY <2>1, <2>2, <2>3 DEF RegisteredCallsWait
<1>8. AnswersAreTheirOwn'
  BY <1>b, <1>i DEF AnswersAreTheirOwn
<1>9. EndReachesEveryCall'
  BY <1>p, <1>b, <1>i DEF EndReachesEveryCall, CallType, Maybe
<1> QED
  BY <1>1, <1>2, <1>3, <1>4, <1>5, <1>6, <1>7, <1>8, <1>9 DEF CallInv

(***************************************************************************)
(* The reader.                                                             *)
(***************************************************************************)
LEMMA RouteKeepsCallInv ==
    ASSUME CallInv, NEW s \in Servers, Route(s) PROVE CallInv'
<1>i. /\ CallType /\ IdsAreFresh /\ IdsAreUnique
      /\ PendingMatches /\ HeardMatches /\ HandMatches
      /\ RegisteredCallsWait /\ AnswersAreTheirOwn /\ EndReachesEveryCall
  BY DEF CallInv
<1>1. PICK line \in heard[s] :
        /\ reader[s] = "reading"
        /\ heard' = [heard EXCEPT ![s] = @ \ {line}]
        /\ IF pending[s][line[1]] = Nobody
           THEN UNCHANGED <<pending, reader, hand>>
           ELSE /\ pending' = [pending EXCEPT ![s][line[1]] = Nobody]
                /\ hand' = [hand EXCEPT ![s] = <<pending[s][line[1]], line[2]>>]
                /\ reader' = [reader EXCEPT ![s] = "carrying"]
        /\ UNCHANGED <<callVars, nextId>>
  BY DEF Route
<1>2. line[1] \in Ids /\ line[2] \in Calls /\ Home[line[2]] = s /\ id[line[2]] = line[1]
  BY <1>1, <1>i DEF CallType, HeardMatches
<1>u. UNCHANGED <<step, id, reply, outcome, nextId>>
  BY <1>1 DEF callVars
<1>3. heard' \in [Servers -> SUBSET (Ids \X Calls)] /\ HeardMatches'
  <2>1. \A t \in Servers : heard'[t] \subseteq heard[t]
    BY <1>1, <1>i DEF CallType
  <2> QED
    BY <2>1, <1>1, <1>u, <1>i DEF CallType, HeardMatches
<1>4. CASE pending[s][line[1]] = Nobody
  BY <1>1, <1>3, <1>4, <1>u, <1>i
     DEF CallInv, CallType, IdsAreFresh, IdsAreUnique, PendingMatches, HandMatches,
         RegisteredCallsWait, InRequest, AnswersAreTheirOwn, EndReachesEveryCall
<1>5. CASE pending[s][line[1]] # Nobody
  <2> DEFINE c == pending[s][line[1]]
  <2>1. c \in Calls /\ Home[c] = s /\ id[c] = line[1]
    BY <1>5, <1>2, <1>i DEF CallType, Maybe, PendingMatches
  <2>2. c = line[2]
    BY <2>1, <1>2, <1>i, IdFacts DEF IdsAreUnique
  <2>3. /\ pending' = [pending EXCEPT ![s][line[1]] = Nobody]
        /\ hand' = [hand EXCEPT ![s] = <<c, c>>]
        /\ reader' = [reader EXCEPT ![s] = "carrying"]
    BY <1>1, <1>5, <2>2
  <2>r. reply[c] = Nobody /\ step[c] # "idle"
    BY <1>2, <1>5, <1>i DEF RegisteredCallsWait, InRequest
  <2> HIDE DEF c
  <2>4. \A t \in Servers : \A i \in Ids :
            pending'[t][i] = pending[t][i] \/ pending'[t][i] = Nobody
    BY <2>3, <1>2, <1>i DEF CallType
  <2>5. \A t \in Servers : \A i \in Ids : pending'[t][i] # Nobody => pending'[t][i] # c
    <3> SUFFICES ASSUME NEW t \in Servers, NEW i \in Ids, pending'[t][i] = c PROVE FALSE
      BY CallsAssumption, <2>1
    <3>1. pending[t][i] = c /\ c # Nobody
      BY <2>4, <2>1, CallsAssumption
    <3>2. t = s /\ i = line[1]
      BY <3>1, <2>1, <1>i DEF PendingMatches
    <3> QED
      BY <3>2, <2>3, <2>1, <1>2, <1>i, CallsAssumption DEF CallType
  <2>6. CallType'
    <3>1. pending' \in [Servers -> [Ids -> Maybe]]
      BY <2>3, <1>2, <1>i DEF CallType, Maybe
    <3>2. hand' \in [Servers -> Maybe \X Maybe]
      BY <2>3, <2>1, <1>i DEF CallType, Maybe
    <3>3. reader' \in [Servers -> {"reading", "carrying", "ended", "cleared"}]
      BY <2>3, <1>i DEF CallType
    <3> QED
      BY <3>1, <3>2, <3>3, <1>3, <1>u, <1>i DEF CallType
  <2>7. IdsAreFresh' /\ IdsAreUnique' /\ AnswersAreTheirOwn'
    BY <1>u, <1>i DEF IdsAreFresh, IdsAreUnique, AnswersAreTheirOwn
  <2>8. PendingMatches'
    BY <2>4, <1>u, <1>i DEF PendingMatches
  <2>9. HandMatches'
    <3>1. \A t \in Servers : hand'[t] = IF t = s THEN <<c, c>> ELSE hand[t]
      BY <2>3, <1>i DEF CallType
    <3>2. \A t \in Servers : t # s => reader'[t] = reader[t]
      BY <2>3, <1>i DEF CallType
    <3> QED
      BY <3>1, <3>2, <2>1, <2>r, <1>u, <1>i, CallsAssumption DEF HandMatches
  <2>10. RegisteredCallsWait'
    BY <2>3, <2>4, <2>5, <1>u, <1>i DEF RegisteredCallsWait, InRequest, CallType
  <2>11. EndReachesEveryCall'
    BY <2>3, <2>4, <1>u, <1>i DEF EndReachesEveryCall, CallType
  <2> QED
    BY <2>6, <2>7, <2>8, <2>9, <2>10, <2>11, <1>3 DEF CallInv
<1> QED
  BY <1>4, <1>5

LEMMA SendKeepsCallInv ==
    ASSUME CallInv, NEW s \in Servers, Send(s) PROVE CallInv'
<1>i. /\ CallType /\ IdsAreFresh /\ IdsAreUnique
      /\ PendingMatches /\ HeardMatches /\ HandMatches
      /\ RegisteredCallsWait /\ AnswersAreTheirOwn /\ EndReachesEveryCall
  BY DEF CallInv
<1> DEFINE c == hand[s][1]
<1>1. /\ c \in Calls /\ hand[s][2] = c /\ Home[c] = s /\ step[c] # "idle"
      /\ reader[s] = "carrying"
  BY <1>i DEF Send, CallType, HandMatches, Maybe
<1>2. /\ reply' = [reply EXCEPT ![c] = c]
      /\ hand' = [hand EXCEPT ![s] = <<Nobody, Nobody>>]
      /\ reader' = [reader EXCEPT ![s] = "reading"]
      /\ UNCHANGED <<step, id, outcome, nextId, pending, heard>>
  BY <1>1 DEF Send
<1>n. \A t \in Servers : \A i \in Ids : pending[t][i] # Nobody => pending[t][i] # c
  <2> SUFFICES ASSUME NEW t \in Servers, NEW i \in Ids, pending[t][i] = c PROVE FALSE
    BY CallsAssumption, <1>1
  <2>1. t = s /\ hand[t][1] # c
    BY <1>1, <1>i, CallsAssumption DEF PendingMatches, RegisteredCallsWait
  <2> QED
    BY <2>1
<1> HIDE DEF c
<1>3. CallType'
  <2>1. reply' \in [Calls -> Maybe]
    BY <1>1, <1>2, <1>i DEF CallType, Maybe
  <2>2. hand' \in [Servers -> Maybe \X Maybe]
    BY <1>2, <1>i DEF CallType, Maybe
  <2>3. reader' \in [Servers -> {"reading", "carrying", "ended", "cleared"}]
    BY <1>2, <1>i DEF CallType
  <2> QED
    BY <1>2, <2>1, <2>2, <2>3, <1>i DEF CallType
<1>4. IdsAreFresh' /\ IdsAreUnique' /\ PendingMatches' /\ HeardMatches'
  BY <1>2, <1>i DEF IdsAreFresh, IdsAreUnique, PendingMatches, HeardMatches
<1>5. HandMatches'
  BY <1>2, <1>i DEF HandMatches, CallType
<1>6. RegisteredCallsWait'
  <2>1. ASSUME NEW t \in Servers, NEW i \in Ids, pending'[t][i] # Nobody
        PROVE  /\ reply'[pending'[t][i]] = Nobody /\ hand'[t][1] # pending'[t][i]
               /\ InRequest(pending[t][i])'
    <3>1. pending[t][i] # c /\ pending'[t][i] = pending[t][i] /\ pending[t][i] \in Calls
      BY <2>1, <1>n, <1>2, <1>i DEF CallType, Maybe
    <3>2. /\ reply[pending[t][i]] = Nobody /\ hand[t][1] # pending[t][i]
          /\ InRequest(pending[t][i])
      BY <2>1, <1>2, <1>i DEF RegisteredCallsWait
    <3>3. hand'[t][1] \in {hand[t][1], Nobody}
      BY <1>2, <1>i DEF CallType
    <3> QED
      BY <3>1, <3>2, <3>3, <1>2, <1>i, CallsAssumption DEF InRequest, CallType
  <2>2. /\ \A d \in Calls : outcome'[d] # "none" => step'[d] = "ended"
        /\ \A d \in Calls : step'[d] = "idle" => reply'[d] = Nobody
    BY <1>1, <1>2, <1>i DEF RegisteredCallsWait, CallType
  <2> QED
    BY <2>1, <2>2 DEF RegisteredCallsWait
<1>7. AnswersAreTheirOwn'
  BY <1>2, <1>i DEF AnswersAreTheirOwn, CallType
<1>8. EndReachesEveryCall'
  BY <1>2, <1>i DEF EndReachesEveryCall, CallType
<1> QED
  BY <1>3, <1>4, <1>5, <1>6, <1>7, <1>8 DEF CallInv

LEMMA OutputEndsKeepsCallInv ==
    ASSUME CallInv, NEW s \in Servers, OutputEnds(s) PROVE CallInv'
<1>1. /\ reader' = [reader EXCEPT ![s] = "ended"]
      /\ UNCHANGED <<step, id, reply, outcome, nextId, pending, heard, hand>>
  BY DEF OutputEnds, callVars
<1>2. CallType'
  BY <1>1 DEF CallInv, CallType
<1>3. HandMatches' /\ EndReachesEveryCall'
  BY <1>1 DEF CallInv, CallType, HandMatches, EndReachesEveryCall
<1>4. /\ IdsAreFresh' /\ IdsAreUnique' /\ PendingMatches' /\ HeardMatches'
      /\ RegisteredCallsWait' /\ AnswersAreTheirOwn'
  BY <1>1 DEF CallInv, IdsAreFresh, IdsAreUnique, PendingMatches, HeardMatches,
              RegisteredCallsWait, InRequest, AnswersAreTheirOwn
<1> QED
  BY <1>2, <1>3, <1>4 DEF CallInv

LEMMA FailPendingKeepsCallInv ==
    ASSUME CallInv, NEW s \in Servers, FailPending(s) PROVE CallInv'
<1>1. /\ pending' = [pending EXCEPT ![s] = Empty]
      /\ reader' = [reader EXCEPT ![s] = "cleared"]
      /\ UNCHANGED <<step, id, reply, outcome, nextId, heard, hand>>
  BY DEF FailPending, callVars
<1>i. CallType
  BY DEF CallInv
<1>2. CallType'
  <2>1. pending' \in [Servers -> [Ids -> Maybe]]
    BY <1>1, <1>i DEF CallType, Maybe, Empty
  <2>2. reader' \in [Servers -> {"reading", "carrying", "ended", "cleared"}]
    BY <1>1, <1>i DEF CallType
  <2> QED
    BY <1>1, <1>i, <2>1, <2>2 DEF CallType
<1>3. \A t \in Servers : \A i \in Ids :
          /\ pending'[t][i] \in {pending[t][i], Nobody}
          /\ t = s => pending'[t][i] = Nobody
  BY <1>1, <1>i DEF CallType, Empty
<1>4. \A t \in Servers : t # s => reader'[t] = reader[t]
  BY <1>1, <1>i DEF CallType
<1>5. \A t \in Servers : reader'[t] = "carrying" => reader[t] = "carrying"
  BY <1>1, <1>i DEF CallType
<1>6. IdsAreFresh' /\ IdsAreUnique' /\ HeardMatches' /\ AnswersAreTheirOwn'
  BY <1>1 DEF CallInv, IdsAreFresh, IdsAreUnique, HeardMatches, AnswersAreTheirOwn
<1>7. PendingMatches' /\ HandMatches'
  BY <1>1, <1>3, <1>5 DEF CallInv, PendingMatches, HandMatches
<1>8. RegisteredCallsWait' /\ EndReachesEveryCall'
  BY <1>1, <1>3, <1>4 DEF CallInv, RegisteredCallsWait, InRequest, EndReachesEveryCall
<1> QED
  BY <1>2, <1>6, <1>7, <1>8 DEF CallInv

LEMMA CallInvNext == CallInv /\ [Next]_vars => CallInv'
<1> SUFFICES ASSUME CallInv, [Next]_vars PROVE CallInv'
  OBVIOUS
<1>1. ASSUME NEW c \in Calls, CallNext(c) PROVE CallInv'
  BY <1>1, RegisterKeepsCallInv, CallNextKeepsCallInv
<1>2. ASSUME NEW s \in Servers, ServerNext(s) PROVE CallInv'
  <2>1. CASE Exit(s) \/ Stop(s) \/ Reaped(s) \/ NotifyExited(s)
    BY <2>1, CallInvUnchanged DEF Exit, Stop, Reaped, NotifyExited
  <2> QED
    BY <1>2, <2>1, RouteKeepsCallInv, SendKeepsCallInv, OutputEndsKeepsCallInv,
       FailPendingKeepsCallInv DEF ServerNext
<1>3. ASSUME NEW w \in Waiters, WaiterNext(w) PROVE CallInv'
  BY <1>3, CallInvUnchanged DEF WaiterNext, Enable, Count, Sleep, GiveUp
<1>4. CASE UNCHANGED vars
  BY <1>4, CallInvUnchanged DEF vars
<1> QED
  BY <1>1, <1>2, <1>3, <1>4 DEF Next

LEMMA CallInvariant == Spec => []CallInv
BY CallInvInit, CallInvNext, PTL DEF Spec

\* Whatever a call receives answers its own question, however late answers
\* come and whatever calls were given up, for any number of calls.
THEOREM AnswersReachTheirCalls == Spec => []AnswersAreTheirOwn
<1>1. CallInv => AnswersAreTheirOwn
  BY DEF CallInv
<1> QED
  BY <1>1, CallInvariant, PTL

\* No call waits on a server whose output has ended.
THEOREM NobodyWaitsOnAClosedServer == Spec => []EndReachesEveryCall
<1>1. CallInv => EndReachesEveryCall
  BY DEF CallInv
<1> QED
  BY <1>1, CallInvariant, PTL

\* A call that ended by itself has left nothing in the map.
THEOREM OnlyDroppedCallsLeaveEntries == Spec => []OnlyDroppedCallsStay
<1>1. CallInv => OnlyDroppedCallsStay
  <2> SUFFICES ASSUME CallInv, NEW s \in Servers, NEW i \in Ids, pending[s][i] # Nobody
               PROVE  outcome[pending[s][i]] \in {"none", "dropped"}
    BY DEF OnlyDroppedCallsStay
  <2>1. pending[s][i] \in Calls
    BY DEF CallInv, CallType, Maybe
  <2> QED
    BY <2>1 DEF CallInv, RegisteredCallsWait, InRequest
<1> QED
  BY <1>1, CallInvariant, PTL

=============================================================================

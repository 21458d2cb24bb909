---------------------------- MODULE RpcSessionProofs ----------------------------
(***************************************************************************)
(* Proofs about RpcSession: type correctness, that a call is executed at   *)
(* most once, and that a failed call has a cause of its own time, for any  *)
(* number of callers and tokens.                                           *)
(***************************************************************************)
EXTENDS RpcSession, TLAPS

Labels == {"idle", "login", "store", "read", "sent"}

(* The functions of TypeOK, without its last conjunct.                     *)
Shape ==
  /\ token \in Tokens \cup {NoToken}
  /\ live \subseteq Tokens
  /\ single \in BOOLEAN
  /\ expiries \in 0..MaxExpiries
  /\ pc \in [Callers -> Labels]
  /\ held \in [Callers -> Tokens \cup {NoToken}]
  /\ resending \in [Callers -> BOOLEAN]
  /\ outcome \in [Callers -> {"none", "ok", "error"}]
  /\ executed \in [Callers -> Nat]
  /\ excuse \in [Callers -> SUBSET {"network", "invalidated", "overtaken", "unparsed", "answer"}]

Carries ==
  \A c \in Callers :
    /\ (held[c] # NoToken) = (pc[c] \in {"store", "sent"})
    /\ pc[c] \in {"read", "sent"} => token # NoToken

(* A call that may still be executed has not been executed yet.            *)
ExecutedLast ==
  \A c \in Callers :
    /\ executed[c] <= 1
    /\ pc[c] # "idle" => executed[c] = 0

(* After its rejection, a call without an excuse has a live token in hand: *)
(* the one it got, or the one it stored and has not read yet.              *)
FreshAgain ==
  \A c \in Callers :
    /\ pc[c] # "idle" => outcome[c] = "none"
    /\ outcome[c] = "error" => excuse[c] # {}
    /\ outcome[c] = "ok" /\ executed[c] = 0 => excuse[c] # {}
    /\ resending[c] /\ excuse[c] = {} =>
         /\ pc[c] \in {"store", "sent"} => held[c] \in live
         /\ pc[c] = "read" => token \in live

IInv == Shape /\ Carries

-----------------------------------------------------------------------------
LEMMA ShapeInit == RpcSessionAssumption /\ Init => Shape
BY DEF RpcSessionAssumption, Init, Shape, Labels

LEMMA ShapeStep ==
  ASSUME RpcSessionAssumption, Shape, [Next]_vars
  PROVE  Shape'
<1>1. CASE UNCHANGED vars
  BY <1>1 DEF Shape, vars, callVars
<1>2. ASSUME NEW c \in Callers, StartCall(c) PROVE Shape'
  BY <1>2 DEF Shape, StartCall, Goto, Labels
<1>3. ASSUME NEW c \in Callers, BeginSession(c) PROVE Shape'
  BY <1>3 DEF Shape, BeginSession, Goto, Excuse, Labels, InUse
<1>4. ASSUME NEW c \in Callers, LoginFails(c) PROVE Shape'
  BY <1>4 DEF Shape, LoginFails, Goto, Return, Excuse, Labels
<1>5. ASSUME NEW c \in Callers, StoreToken(c) PROVE Shape'
  BY <1>5 DEF Shape, StoreToken, NewToken, Goto, Excuse, Labels
<1>6. ASSUME NEW c \in Callers, ReadToken(c) PROVE Shape'
  BY <1>6 DEF Shape, ReadToken, Goto, Labels
<1>7. ASSUME NEW c \in Callers, Accepted(c) PROVE Shape'
  BY <1>7 DEF Shape, Accepted, Goto, Return, Labels
<1>8. ASSUME NEW c \in Callers, NEW form \in Rejections, Rejected(c, form) PROVE Shape'
  <2>1. LogInAgain(c) \/ TakeAsAnswer(c, form)
    BY <1>8 DEF Rejected
  <2>2. UNCHANGED <<token, live, single, expiries, executed>>
    BY <1>8 DEF Rejected
  <2>3. CASE LogInAgain(c)
    BY <2>2, <2>3 DEF Shape, LogInAgain, Goto, Labels
  <2>4. CASE TakeAsAnswer(c, form)
    <3>1. excuse' \in [Callers -> SUBSET {"network", "invalidated", "overtaken", "unparsed", "answer"}]
      BY <2>4 DEF Shape, TakeAsAnswer, Excuse
    <3> QED
      BY <2>2, <2>4, <3>1 DEF Shape, TakeAsAnswer, Goto, Return, Labels
  <2> QED
    BY <2>1, <2>3, <2>4
<1>9. ASSUME NEW c \in Callers, TimedOut(c) PROVE Shape'
  BY <1>9 DEF Shape, TimedOut, LossIsError, Goto, Return, Excuse, Labels
<1>10. CASE SessionsExpire
  BY <1>10 DEF RpcSessionAssumption, Shape, SessionsExpire, Excuse, callVars
<1>11. ASSUME NEW c \in Callers, NotExecuted(c) PROVE Shape'
  BY <1>11 DEF Shape, NotExecuted, Goto, Return, Excuse, Labels
<1>12. ASSUME NEW c \in Callers, TakenForExpiry(c) PROVE Shape'
  BY <1>12 DEF Shape, TakenForExpiry, LogInAgain, Goto, Labels
<1> QED
  BY <1>1, <1>2, <1>3, <1>4, <1>5, <1>6, <1>7, <1>8, <1>9, <1>10,
     <1>11, <1>12 DEF Next, CallStep

LEMMA CarriesStep ==
  ASSUME RpcSessionAssumption, Shape, Carries, [Next]_vars
  PROVE  Carries'
<1>1. CASE UNCHANGED vars
  BY <1>1 DEF Carries, vars, callVars
<1>2. ASSUME NEW c \in Callers, StartCall(c) PROVE Carries'
  BY <1>2 DEF Shape, Carries, StartCall, Goto
<1>3. ASSUME NEW c \in Callers, BeginSession(c) PROVE Carries'
  BY <1>3 DEF RpcSessionAssumption, Shape, Carries, BeginSession, Goto
<1>4. ASSUME NEW c \in Callers, LoginFails(c) PROVE Carries'
  BY <1>4 DEF Shape, Carries, LoginFails, Goto, Return
<1>5. ASSUME NEW c \in Callers, StoreToken(c) PROVE Carries'
  BY <1>5 DEF Shape, Carries, StoreToken, NewToken, Goto
<1>6. ASSUME NEW c \in Callers, ReadToken(c) PROVE Carries'
  BY <1>6 DEF Shape, Carries, ReadToken, Goto
<1>7. ASSUME NEW c \in Callers, Accepted(c) PROVE Carries'
  BY <1>7 DEF Shape, Carries, Accepted, Goto, Return
<1>8. ASSUME NEW c \in Callers, NEW form \in Rejections, Rejected(c, form) PROVE Carries'
  BY <1>8 DEF Shape, Carries, Rejected, LogInAgain, TakeAsAnswer, Goto, Return
<1>9. ASSUME NEW c \in Callers, TimedOut(c) PROVE Carries'
  BY <1>9 DEF Shape, Carries, TimedOut, LossIsError, Goto, Return
<1>10. CASE SessionsExpire
  BY <1>10 DEF Carries, SessionsExpire, callVars
<1>11. ASSUME NEW c \in Callers, NotExecuted(c) PROVE Carries'
  BY <1>11 DEF Shape, Carries, NotExecuted, Goto, Return
<1>12. ASSUME NEW c \in Callers, TakenForExpiry(c) PROVE Carries'
  BY <1>12 DEF Shape, Carries, TakenForExpiry, LogInAgain, Goto
<1> QED
  BY <1>1, <1>2, <1>3, <1>4, <1>5, <1>6, <1>7, <1>8, <1>9, <1>10,
     <1>11, <1>12 DEF Next, CallStep

LEMMA ExecutedStep ==
  ASSUME Shape, ExecutedLast, [Next]_vars
  PROVE  ExecutedLast'
<1>1. CASE UNCHANGED vars
  BY <1>1 DEF ExecutedLast, vars, callVars
<1>2. ASSUME NEW c \in Callers, StartCall(c) PROVE ExecutedLast'
  BY <1>2 DEF Shape, ExecutedLast, StartCall, Goto
<1>3. ASSUME NEW c \in Callers,
             BeginSession(c) \/ StoreToken(c) \/ ReadToken(c) \/ LoginFails(c)
      PROVE  ExecutedLast'
  BY <1>3 DEF Shape, ExecutedLast, BeginSession, StoreToken, ReadToken, LoginFails, Goto, Return
<1>4. ASSUME NEW c \in Callers, Accepted(c) PROVE ExecutedLast'
  BY <1>4 DEF Shape, ExecutedLast, Accepted, Goto, Return
<1>5. ASSUME NEW c \in Callers, NEW form \in Rejections, Rejected(c, form)
      PROVE  ExecutedLast'
  BY <1>5 DEF Shape, ExecutedLast, Rejected, LogInAgain, TakeAsAnswer, Goto, Return
<1>6. ASSUME NEW c \in Callers, TimedOut(c) PROVE ExecutedLast'
  BY <1>6 DEF Shape, ExecutedLast, TimedOut, LossIsError, Goto, Return
<1>7. CASE SessionsExpire
  BY <1>7 DEF ExecutedLast, SessionsExpire, callVars
<1>8. ASSUME NEW c \in Callers, NotExecuted(c) \/ TakenForExpiry(c) PROVE ExecutedLast'
  BY <1>8 DEF Shape, ExecutedLast, NotExecuted, TakenForExpiry, LogInAgain, Goto, Return
<1> QED
  BY <1>1, <1>2, <1>3, <1>4, <1>5, <1>6, <1>7, <1>8 DEF Next, CallStep

LEMMA FreshStep ==
  ASSUME Shape, Carries, FreshAgain, [Next]_vars
  PROVE  FreshAgain'
<1>1. CASE UNCHANGED vars
  BY <1>1 DEF FreshAgain, vars, callVars
<1>2. ASSUME NEW c \in Callers, StartCall(c) PROVE FreshAgain'
  BY <1>2 DEF Shape, FreshAgain, StartCall, Goto
<1>3. ASSUME NEW c \in Callers, BeginSession(c) PROVE FreshAgain'
  BY <1>3 DEF Shape, FreshAgain, BeginSession, Goto, Excuse, InUse
<1>4. ASSUME NEW c \in Callers, LoginFails(c) PROVE FreshAgain'
  <2>1. CASE UNCHANGED live /\ Excuse({c}, "network")
    BY <1>4, <2>1 DEF Shape, FreshAgain, LoginFails, Goto, Return, Excuse
  <2>2. CASE \A d \in Callers : excuse'[d] # {}
    BY <1>4, <2>2 DEF FreshAgain, Shape, LoginFails, Goto, Return
  <2>3. \/ UNCHANGED live /\ Excuse({c}, "network")
        \/ \A d \in Callers : excuse'[d] # {}
    BY <1>4 DEF LoginFails
  <2> QED
    BY <2>1, <2>2, <2>3
<1>5. ASSUME NEW c \in Callers, StoreToken(c) PROVE FreshAgain'
  BY <1>5 DEF Shape, FreshAgain, StoreToken, NewToken, Goto, Excuse
<1>6. ASSUME NEW c \in Callers, ReadToken(c) PROVE FreshAgain'
  BY <1>6 DEF Shape, FreshAgain, ReadToken, Goto
<1>7. ASSUME NEW c \in Callers, Accepted(c) PROVE FreshAgain'
  BY <1>7 DEF Shape, FreshAgain, Accepted, Goto, Return
<1>8. ASSUME NEW c \in Callers, NEW form \in Rejections, Rejected(c, form)
      PROVE  FreshAgain'
  <2>1. \/ form # "text" /\ ~GivesUp(c) /\ LogInAgain(c)
        \/ (form = "text" \/ GivesUp(c)) /\ TakeAsAnswer(c, form)
    BY <1>8 DEF Rejected
  <2>2. UNCHANGED <<token, live, executed>> /\ pc[c] = "sent" /\ held[c] \notin live
    BY <1>8 DEF Rejected
  <2>3. CASE LogInAgain(c)
    BY <2>2, <2>3 DEF Shape, FreshAgain, LogInAgain, Goto
  <2>4. CASE form = "text" /\ TakeAsAnswer(c, form)
    <3>1. /\ pc' = [pc EXCEPT ![c] = "idle"] /\ held' = [held EXCEPT ![c] = NoToken]
          /\ UNCHANGED resending
          /\ \A d \in Callers \ {c} : outcome'[d] = outcome[d] /\ excuse'[d] = excuse[d]
      BY <2>4 DEF Shape, TakeAsAnswer, Goto, Return, Excuse
    <3>2. excuse'[c] # {}
      BY <2>4 DEF TakeAsAnswer, Excuse
    <3> QED
      BY <2>2, <3>1, <3>2 DEF Shape, FreshAgain
  <2>5. CASE form # "text" /\ GivesUp(c) /\ TakeAsAnswer(c, form)
    <3>1. /\ pc' = [pc EXCEPT ![c] = "idle"] /\ held' = [held EXCEPT ![c] = NoToken]
          /\ UNCHANGED <<resending, excuse>>
          /\ \A d \in Callers \ {c} : outcome'[d] = outcome[d]
      BY <2>5 DEF Shape, TakeAsAnswer, Goto, Return
    <3>2. excuse[c] # {}
      BY <2>2, <2>5 DEF FreshAgain, GivesUp
    <3> QED
      BY <2>2, <3>1, <3>2 DEF Shape, FreshAgain
  <2> QED
    BY <2>1, <2>3, <2>4, <2>5
<1>9. ASSUME NEW c \in Callers, TimedOut(c) PROVE FreshAgain'
  BY <1>9 DEF Shape, FreshAgain, TimedOut, LossIsError, Goto, Return, Excuse
<1>10. CASE SessionsExpire
  BY <1>10 DEF Shape, FreshAgain, SessionsExpire, Excuse, callVars
<1>11. ASSUME NEW c \in Callers, NotExecuted(c) PROVE FreshAgain'
  BY <1>11 DEF Shape, FreshAgain, NotExecuted, Goto, Return, Excuse
<1>12. ASSUME NEW c \in Callers, TakenForExpiry(c) PROVE FreshAgain'
  BY <1>12 DEF Shape, FreshAgain, TakenForExpiry, LogInAgain, Goto
<1> QED
  BY <1>1, <1>2, <1>3, <1>4, <1>5, <1>6, <1>7, <1>8, <1>9, <1>10,
     <1>11, <1>12 DEF Next, CallStep

-----------------------------------------------------------------------------
(* Tokens are carried where they should be, and none is ever forgotten     *)
(* between a login and the use of its token (jsonrpc.rs:117, 161-177).     *)
THEOREM TypeCorrect == Spec => []TypeOK
<1>1. Init => IInv
  BY RpcSessionAssumption, ShapeInit DEF Init, IInv, Carries
<1>2. IInv /\ [Next]_vars => IInv'
  BY RpcSessionAssumption, ShapeStep, CarriesStep DEF IInv
<1>3. IInv => TypeOK
  BY DEF IInv, Shape, Carries, Labels, TypeOK
<1> QED
  BY <1>1, <1>2, <1>3, PTL DEF Spec

(* No call is executed twice by the chassis (jsonrpc.rs:178-211).          *)
THEOREM CallsExecutedOnce == Spec => []AtMostOnce
<1>1. Init => Shape /\ ExecutedLast
  BY RpcSessionAssumption, ShapeInit DEF Init, ExecutedLast
<1>2. Shape /\ ExecutedLast /\ [Next]_vars => Shape' /\ ExecutedLast'
  BY RpcSessionAssumption, ShapeStep, ExecutedStep
<1>3. ExecutedLast => AtMostOnce
  BY DEF ExecutedLast, AtMostOnce
<1> QED
  BY <1>1, <1>2, <1>3, PTL DEF Spec

(* The resend of call_rpc hides a token that expired before the call from  *)
(* its caller (jsonrpc.rs:190-211).                                        *)
THEOREM RetryHidesExpiry == Spec => []OutcomeExplained
<1> DEFINE Inv == IInv /\ FreshAgain
<1>1. Init => Inv
  BY RpcSessionAssumption, ShapeInit DEF Init, IInv, Carries, FreshAgain
<1>2. Inv /\ [Next]_vars => Inv'
  BY RpcSessionAssumption, ShapeStep, CarriesStep, FreshStep DEF IInv
<1>3. Inv => OutcomeExplained
  BY DEF FreshAgain, OutcomeExplained
<1> HIDE DEF Inv
<1> QED
  BY <1>1, <1>2, <1>3, PTL DEF Spec
=============================================================================

------------------------------- MODULE RpcSession -------------------------------
(***************************************************************************)
(* The session of the JSON-RPC client (src/src/appear_x/jsonrpc.rs): every *)
(* poller and the command handler call through clones of one client, which *)
(* share one token.  A call logs in when there is no token, and when the   *)
(* chassis rejects its token it logs in again and resends once.            *)
(*                                                                         *)
(* The token lock is held for one read or one write only: each of them and *)
(* each answer of the chassis is a step.  Tokens are opaque; one that      *)
(* neither the client nor a caller holds any more may be issued again.     *)
(***************************************************************************)
EXTENDS Integers

CONSTANTS
  Callers,        (* the tasks that share the client                       *)
  Tokens,         (* pool of session tokens                                *)
  NoToken,
  Rejections,     (* external: the forms a rejection of a token may take   *)
  MaxExpiries     (* bound: how often the chassis drops its sessions       *)

ASSUME RpcSessionAssumption ==
  /\ NoToken \notin Tokens
  /\ Rejections \subseteq {"error", "bare", "text"}
  /\ MaxExpiries \in Nat

VARIABLES
  token,      (* the shared token                                          *)
  live,       (* external: the tokens the chassis accepts                  *)
  single,     (* external: does a new session end the ones before it?      *)
  expiries,   (* bound counter                                             *)
  pc,         (* where each caller is in call_rpc                          *)
  held,       (* the token it carries                                      *)
  resending,  (* has it been rejected once?                                *)
  outcome,    (* history: "ok" or "error" of its last call                 *)
  executed,   (* history: how often the chassis executed its call          *)
  excuse      (* history: why its call may fail                            *)

callVars == <<pc, held, resending, outcome, executed>>
vars == <<token, live, single, expiries, callVars, excuse>>

Init ==
  /\ token = NoToken
  /\ live = {}
  /\ single \in BOOLEAN
  /\ expiries = 0
  /\ pc = [c \in Callers |-> "idle"]
  /\ held = [c \in Callers |-> NoToken]
  /\ resending = [c \in Callers |-> FALSE]
  /\ outcome = [c \in Callers |-> "none"]
  /\ executed = [c \in Callers |-> 0]
  /\ excuse = [c \in Callers |-> {}]

Goto(c, label) == pc' = [pc EXCEPT ![c] = label]

(* The call returns; what it held is dropped.                              *)
Return(c, result) ==
  /\ Goto(c, "idle")
  /\ outcome' = [outcome EXCEPT ![c] = result]
  /\ held' = [held EXCEPT ![c] = NoToken]

Excuse(callers, reason) ==
  excuse' = [c \in Callers |-> IF c \in callers THEN excuse[c] \cup {reason} ELSE excuse[c]]

-----------------------------------------------------------------------------
StartCall(c) ==
  /\ pc[c] = "idle"
  /\ Goto(c, IF token = NoToken THEN "login" ELSE "read")
  /\ resending' = [resending EXCEPT ![c] = FALSE]
  /\ outcome' = [outcome EXCEPT ![c] = "none"]
  /\ executed' = [executed EXCEPT ![c] = 0]
  /\ excuse' = [excuse EXCEPT ![c] = {}]
  /\ UNCHANGED <<token, live, single, expiries, held>>

InUse == {token} \cup {held[c] : c \in Callers}

(* authenticate(): the chassis opens a session...                          *)
BeginSession(c) ==
  /\ pc[c] = "login"
  /\ \E t \in Tokens \ InUse :
       /\ held' = [held EXCEPT ![c] = t]
       /\ live' = {t} \cup IF single THEN {} ELSE live \cap InUse
  /\ Goto(c, "store")
  /\ IF single THEN Excuse(Callers \ {c}, "invalidated") ELSE UNCHANGED excuse
  /\ UNCHANGED <<token, single, expiries, resending, outcome, executed>>

(* ...or does not, or its answer is lost: the call fails.  A session whose *)
(* token is lost may still have ended those before it.                     *)
LoginFails(c) ==
  /\ pc[c] = "login"
  /\ Return(c, "error")
  /\ \/ UNCHANGED live /\ Excuse({c}, "network")
     \/ /\ single /\ live' = {}
        /\ excuse' = [d \in Callers |->
                        excuse[d] \cup {IF d = c THEN "network" ELSE "invalidated"}]
  /\ UNCHANGED <<token, single, expiries, resending, executed>>

(* ...and the client stores its token, over whatever others stored.        *)
ForgottenToken(c) == UNCHANGED token
NewToken(c) == token' = held[c]

StoreToken(c) ==
  /\ pc[c] = "store"
  /\ NewToken(c)
  /\ Goto(c, "read")
  /\ held' = [held EXCEPT ![c] = NoToken]
  /\ Excuse({d \in Callers \ {c} : held[c] \notin live /\ pc[d] = "read"}, "overtaken")
  /\ UNCHANGED <<live, single, expiries, resending, outcome, executed>>

ReadToken(c) ==
  /\ pc[c] = "read"
  /\ held' = [held EXCEPT ![c] = token]
  /\ Goto(c, "sent")
  /\ UNCHANGED <<token, live, single, expiries, resending, outcome, executed, excuse>>

-----------------------------------------------------------------------------
(* The chassis executes a call that carries a live token.                  *)
Accepted(c) ==
  /\ pc[c] = "sent"
  /\ held[c] \in live
  /\ executed' = [executed EXCEPT ![c] = @ + 1]
  /\ Return(c, "ok")
  /\ UNCHANGED <<token, live, single, expiries, resending, excuse>>

(* ...or answers that it did not.  What has no error member is taken for a *)
(* success, whatever the HTTP status.                                      *)
NotExecuted(c) ==
  /\ pc[c] = "sent"
  /\ held[c] \in live
  /\ \E result \in {"error", "ok"} : Return(c, result)
  /\ Excuse({c}, "answer")
  /\ UNCHANGED <<token, live, single, expiries, resending, executed>>

NeverGivesUp(c) == FALSE
GivesUp(c) == resending[c]

LogInAgain(c) ==
  /\ Goto(c, "login")
  /\ resending' = [resending EXCEPT ![c] = TRUE]
  /\ held' = [held EXCEPT ![c] = NoToken]
  /\ UNCHANGED <<outcome, excuse>>

(* The error -32600 is taken for an expiry, whatever the chassis means by  *)
(* it.                                                                     *)
TakenForExpiry(c) ==
  /\ pc[c] = "sent"
  /\ held[c] \in live
  /\ ~GivesUp(c)
  /\ LogInAgain(c)
  /\ UNCHANGED <<token, live, single, expiries, executed>>

(* A rejection is error -32600 ("error"), a 401 whose JSON has no error    *)
(* ("bare") or a 401 with any other body ("text").  The body is parsed     *)
(* before the status is looked at, so a "text" fails the call.  The second *)
(* answer only has its error member looked at.                             *)
TakeAsAnswer(c, form) ==
  /\ Return(c, IF form = "bare" THEN "ok" ELSE "error")
  /\ IF form = "text" THEN Excuse({c}, "unparsed") ELSE UNCHANGED excuse
  /\ UNCHANGED resending

Rejected(c, form) ==
  /\ pc[c] = "sent"
  /\ held[c] \notin live
  /\ \/ form # "text" /\ ~GivesUp(c) /\ LogInAgain(c)
     \/ (form = "text" \/ GivesUp(c)) /\ TakeAsAnswer(c, form)
  /\ UNCHANGED <<token, live, single, expiries, executed>>

(* The request or its answer is lost, and the 10 s timeout strikes, or the *)
(* answer is no JSON: the call fails without a retry, although it may have *)
(* been executed.                                                          *)
RetriedLoss(c) == Goto(c, "read") /\ UNCHANGED <<outcome, held>>
LossIsError(c) == Return(c, "error")

TimedOut(c) ==
  /\ pc[c] = "sent"
  /\ \/ UNCHANGED executed
     \/ held[c] \in live /\ executed' = [executed EXCEPT ![c] = @ + 1]
  /\ LossIsError(c)
  /\ Excuse({c}, "network")
  /\ UNCHANGED <<token, live, single, expiries, resending>>

(* The chassis restarts or ends its sessions.                              *)
SessionsExpire ==
  /\ expiries < MaxExpiries
  /\ live # {}
  /\ live' = {}
  /\ expiries' = expiries + 1
  /\ Excuse(Callers, "invalidated")
  /\ UNCHANGED <<token, single, callVars>>

CallStep(c) ==
  \/ StartCall(c) \/ BeginSession(c) \/ LoginFails(c) \/ StoreToken(c) \/ ReadToken(c)
  \/ Accepted(c) \/ NotExecuted(c) \/ TakenForExpiry(c) \/ TimedOut(c)
  \/ \E form \in Rejections : Rejected(c, form)

Next == (\E c \in Callers : CallStep(c)) \/ SessionsExpire

Spec == Init /\ [][Next]_vars

(* Pollers call again and again and every await ends, by an answer or by   *)
(* the timeout.                                                            *)
FairSpec == Spec /\ \A c \in Callers : WF_vars(CallStep(c))

-----------------------------------------------------------------------------
(* A caller carries a token exactly while it stores it or uses it, and a   *)
(* stored token is never lost: the client logs in, but never out.          *)
TypeOK ==
  /\ token \in Tokens \cup {NoToken}
  /\ live \subseteq Tokens
  /\ single \in BOOLEAN
  /\ expiries \in 0..MaxExpiries
  /\ pc \in [Callers -> {"idle", "login", "store", "read", "sent"}]
  /\ held \in [Callers -> Tokens \cup {NoToken}]
  /\ resending \in [Callers -> BOOLEAN]
  /\ outcome \in [Callers -> {"none", "ok", "error"}]
  /\ executed \in [Callers -> Nat]
  /\ excuse \in [Callers -> SUBSET {"network", "invalidated", "overtaken", "unparsed", "answer"}]
  /\ \A c \in Callers :
       /\ (held[c] # NoToken) = (pc[c] \in {"store", "sent"})
       /\ pc[c] \in {"read", "sent"} => token # NoToken

(* No command is carried out twice for one call, however often the call    *)
(* logs in, is resent or times out.                                        *)
AtMostOnce == \A c \in Callers : executed[c] <= 1

(* The retry hides an expired token: a call fails, or is reported done     *)
(* without having been carried out, only for a cause of its own time: the  *)
(* chassis accepted its token and answered that it was not carried out,    *)
(* the network, sessions ended while it was under way, another caller that *)
(* stored an older token over the one it got, or a rejection that is not   *)
(* JSON.  A token that expired earlier is no cause.                        *)
OutcomeExplained ==
  \A c \in Callers :
    \/ outcome[c] = "error"
    \/ outcome[c] = "ok" /\ executed[c] = 0
    => excuse[c] # {}

(* A caller never hangs or retries for ever, even when every login ends    *)
(* the sessions of the others.                                             *)
EveryCallEnds == \A c \in Callers : pc[c] # "idle" ~> pc[c] = "idle"

(* Once the network is well and the chassis answers -32600 or a 401 only   *)
(* for an expiry, as JSON, the callers settle on one token it accepts and  *)
(* nobody logs in any more, unless each login of one caller ends the       *)
(* session of the others.                                                  *)
AnswersAreClear ==
  <>[][\A c \in Callers :
         ~(LoginFails(c) \/ TimedOut(c) \/ TakenForExpiry(c) \/ Rejected(c, "text"))]_vars

Settled == token \in live /\ \A c \in Callers : pc[c] \notin {"login", "store"}

SessionsSettle == ~single /\ AnswersAreClear => <>[]Settled
=============================================================================

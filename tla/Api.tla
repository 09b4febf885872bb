--------------------------------- MODULE Api --------------------------------
(***************************************************************************)
(* The API of the daemon: logins (Access), requests that edit and commit   *)
(* (Sessions), and the events their clients follow (Events).  A request    *)
(* needs a token; a commit publishes an event inside the mutex of the      *)
(* engine; a logout discards the edits of its user; a restart of the       *)
(* daemon forgets tokens, edits, alarms and subscribers together.          *)
(***************************************************************************)
EXTENDS Sessions, Events

CONSTANT MaxEvents     \* bound: stimuli from outside in a behaviour

VARIABLE spent

vars == <<accessVars, sessionVars, eventVars, spent>>

Spend == spent < MaxEvents /\ spent' = spent + 1

Init == AccessInit /\ SessionsInit /\ EventsInit /\ spent = 0

LoginAttempt == \E u \in Users, right \in BOOLEAN :
    Spend /\ Login(u, right) /\ UNCHANGED <<sessionVars, eventVars>>
TimePasses == Spend /\ Tick /\ UNCHANGED <<sessionVars, eventVars>>

NewRequest == \E r \in Requests, u \in Users :
    Spend /\ (Rest(r, u) \/ Cli(r, u)) /\ UNCHANGED eventVars
EngineCall == \E r \in Requests : Call(r) /\ UNCHANGED <<eventVars, spent>>

\* onCommit, called by the engine inside its mutex.
Commit == \E r \in Requests :
    /\ CommitCall(r)
    /\ IF Announced(r) THEN PublishOther ELSE UNCHANGED eventVars
    /\ UNCHANGED spent

SessionEnds == Spend /\ UNCHANGED eventVars
               /\ (IdleTimeout \/ ConfirmedTimeout \/ \E u \in Users : ForgetCli(u))

AlarmChange ==
    /\ Spend /\ UNCHANGED <<accessVars, sessionVars>>
    /\ \/ \E a \in Alarms : Raise(a) \/ Resolve(a)
       \/ \E s \in {Scope[a] : a \in Alarms} : \E F \in SUBSET Alarms : Sync(s, F)
       \/ \E S \in SUBSET Alarms \ {{}} : Clear(S)
Notify == Emit /\ UNCHANGED <<accessVars, sessionVars, spent>>
OtherEvent == Spend /\ PublishOther /\ UNCHANGED <<accessVars, sessionVars>>

Stream == \E c \in Clients :
    /\ UNCHANGED <<accessVars, sessionVars>>
    /\ \/ (Connect(c) \/ Disconnect(c)) /\ Spend
       \/ (Subscribe(c) \/ Deliver(c)) /\ UNCHANGED spent

Restart == Spend /\ AccessRestart /\ SessionsRestart /\ EventsRestart

Next == \/ LoginAttempt \/ TimePasses \/ NewRequest \/ EngineCall \/ Commit \/ SessionEnds
        \/ AlarmChange \/ Notify \/ OtherEvent \/ Stream \/ Restart

Spec == Init /\ [][Next]_vars

=============================================================================

------------------------------ MODULE Sessions ------------------------------
(***************************************************************************)
(* What clients do to the configuration: the REST handlers of internal/api *)
(* (resources.go, configuration.go, resources_w5.go), the commands of the  *)
(* CLI (cliexec.go, cli_compute_oper.go), and as much of the engine as     *)
(* they see: the lock, the candidate and the committed configuration.      *)
(*                                                                         *)
(* A request is a sequence of engine calls.  Each call is atomic; requests *)
(* interleave between them.  The executor of the CLI runs one command at a *)
(* time.  How a commit becomes durable, and what the substrate makes of    *)
(* it, is ConfigEngine.                                                    *)
(***************************************************************************)
EXTENDS Access

CONSTANTS
    Requests,     \* handlers that run at the same time
    Items         \* what a configuration holds or not

Ops == [add : BOOLEAN, item : Items]
Holders == Users \X {"api", "ssh"}       \* Session.holder: user@source
Configs == SUBSET Items

ASSUME SessionsAssumption ==
    /\ IsFiniteSet(Requests) /\ IsFiniteSet(Items)
    /\ \A x \in Holders \cup Ops : x # None
    /\ \A c \in Configs : c # None

VARIABLES
    lock,        \* the row of config_lock: who holds it
    holder,      \* Engine.holder
    cand,        \* Engine.candidate
    dirty,       \* Engine.dirty
    committed,   \* the latest revision
    older,       \* the one before it
    pending,     \* base of a commit that waits for its confirmation
    mode,        \* CLI sessions in configuration mode
    req,         \* the requests in progress
    kept,        \* history: the lock was taken, or is used, by a session of several requests
    wish,        \* history: the candidate that the accepted requests of a holder add up to
    mixed        \* history: holders whose requests overlapped

engineVars == <<lock, holder, cand, dirty, committed, older, pending>>
ghosts == <<kept, wish, mixed>>
sessionVars == <<engineVars, mode, req, ghosts>>

Done == [holder |-> None, prog |-> <<>>, closing |-> <<>>, op |-> None,
         view |-> {}, confirm |-> FALSE, enter |-> None, token |-> None]

SessionsInit ==
    /\ lock = None /\ holder = None /\ cand = None /\ dirty = FALSE
    /\ committed = {} /\ older = None /\ pending = None
    /\ mode = {} /\ req = [r \in Requests |-> Done]
    /\ kept = FALSE /\ wish = [h \in Holders |-> None] /\ mixed = {}

EngineCalls == {"edit", "read", "update", "merge", "commit", "check", "release", "exit", "discard",
                "token", "rollback", "confirm"}
Request == [holder : Holders \cup {None}, prog : Seq(EngineCalls), closing : Seq(EngineCalls),
            op : Ops \cup {None}, view : Configs, confirm : BOOLEAN,
            enter : {"config", "oper", None}, token : Tokens \cup {None}]

SessionsTypeOK ==
    /\ {lock, holder} \subseteq Holders \cup {None}
    /\ {cand, older, pending} \subseteq Configs \cup {None}
    /\ dirty \in BOOLEAN /\ committed \in Configs
    /\ mode \subseteq Holders /\ mixed \subseteq Holders
    /\ wish \in [Holders -> Configs \cup {None}] /\ kept \in BOOLEAN
    /\ req \in [Requests -> Request]

Busy(h) == {r \in Requests : req[r].holder = h}
Editing(h) == cand # None /\ holder = h       \* requireHolderLocked

\* mutate of a handler, a statement of the CLI: creating what exists and
\* deleting what does not are refused.
Allowed(op, c) == op.add # (op.item \in c)
Changed(op, c) == IF op.add THEN c \cup {op.item} ELSE c \ {op.item}
-----------------------------------------------------------------------------
\* The next call, or none; a call that fails ends the request, but a one-shot
\* request still runs what it deferred.
Continue(r) ==
    LET q == req[r]
    IN req' = [req EXCEPT ![r] = IF Len(q.prog) = 1 THEN Done ELSE [q EXCEPT !.prog = Tail(@)]]
Quit(r) == req' = [req EXCEPT ![r] = Done]
\* What a handler defers is forgotten on its error paths.
SlipFail(r) == Quit(r)

Fail(r) == IF req[r].closing = <<>> THEN Quit(r)
           ELSE req' = [req EXCEPT ![r].prog = req[r].closing]
At(r, call) == req[r].prog # <<>> /\ Head(req[r].prog) = call

\* releaseLocked: the row goes if it is the row of the holder in memory.
ReleaseLocked ==
    /\ lock' = IF lock = holder THEN None ELSE lock
    /\ cand' = None /\ holder' = None /\ dirty' = FALSE /\ kept' = FALSE
    /\ UNCHANGED <<committed, older, pending>>

\* Edit: the lock of another is refused; one's own with its candidate is kept;
\* otherwise the candidate begins as the committed configuration.
EditCall(r) ==
    LET h == req[r].holder
        fresh == lock = None \/ cand = None
    IN /\ At(r, "edit")
       /\ IF lock \notin {None, h}
          THEN /\ Quit(r)
               /\ UNCHANGED <<engineVars, kept>>
          ELSE /\ Continue(r)
               /\ lock' = h
               /\ holder' = IF fresh THEN h ELSE holder
               /\ cand' = IF fresh THEN committed ELSE cand
               /\ dirty' = IF fresh THEN FALSE ELSE dirty
               /\ kept' = ((~fresh /\ kept) \/ req[r].closing = <<>>)
               /\ UNCHANGED <<committed, older, pending>>
       /\ mode' = IF req[r].enter = "config" /\ lock \in {None, h} THEN mode \cup {h} ELSE mode
       /\ UNCHANGED <<wish, mixed, accessVars>>

\* Candidate, then the change on the copy.  The candidate need not be one's own.
ReadCall(r) ==
    /\ At(r, "read")
    /\ IF cand # None /\ Allowed(req[r].op, cand)
       THEN req' = [req EXCEPT ![r].prog = Tail(@), ![r].view = Changed(req[r].op, cand)]
       ELSE Fail(r)
    /\ UNCHANGED <<engineVars, mode, ghosts, accessVars>>

\* What the requests of h accepted so far add up to.
Base(h) == IF wish[h] # None THEN wish[h] ELSE committed

\* UpdateCandidate: the whole candidate is replaced by what was read and
\* changed, or by the body of the request.
UpdateCall(r) ==
    LET h == req[r].holder
    IN /\ At(r, "update")
       /\ IF Editing(h)
          THEN /\ cand' = req[r].view /\ dirty' = TRUE
               /\ wish' = [wish EXCEPT ![h] = IF req[r].op = None THEN req[r].view
                                              ELSE Changed(req[r].op, Base(h))]
               /\ Continue(r)
          ELSE Fail(r) /\ UNCHANGED <<cand, dirty, wish>>
       /\ UNCHANGED <<lock, holder, committed, older, pending, mode, kept, mixed, accessVars>>

\* MergeCandidate: inside the engine, on the candidate of the moment.
MergeCall(r) ==
    LET h == req[r].holder
    IN /\ At(r, "merge")
       /\ IF Editing(h)
          THEN /\ cand' = Changed(req[r].op, cand) /\ dirty' = TRUE
               /\ wish' = [wish EXCEPT ![h] = Changed(req[r].op, Base(h))]
               /\ Continue(r)
          ELSE Fail(r) /\ UNCHANGED <<cand, dirty, wish>>
       /\ UNCHANGED <<lock, holder, committed, older, pending, mode, kept, mixed, accessVars>>

\* Commit: whoever asks confirms what is pending; then only the holder goes on.
\* Nothing changed: no revision.  A refusal by the validation or the substrate
\* leaves the candidate and the lock; so does success.
CommitCall(r) ==
    LET h == req[r].holder
    IN /\ At(r, "commit")
       /\ \/ /\ ~Editing(h)
             /\ Fail(r) /\ pending' = None
             /\ UNCHANGED <<dirty, committed, older, wish>>
          \/ /\ Editing(h) /\ ~dirty
             /\ Continue(r) /\ pending' = None
             /\ UNCHANGED <<dirty, committed, older, wish>>
          \/ /\ Editing(h) /\ dirty          \* refused
             /\ Fail(r) /\ pending' = None
             /\ UNCHANGED <<dirty, committed, older, wish>>
          \/ /\ Editing(h) /\ dirty          \* done
             /\ committed' = cand /\ older' = committed /\ dirty' = FALSE
             /\ pending' = IF req[r].confirm THEN committed ELSE None
             /\ wish' = [wish EXCEPT ![h] = None]
             /\ Continue(r)
       /\ mode' = IF req[r].enter = "oper" THEN mode \ {h} ELSE mode
       /\ kept' = (kept \/ (Editing(h) /\ req[r].closing = <<>>))
       /\ UNCHANGED <<lock, holder, cand, mixed, accessVars>>
Announced(r) == At(r, "commit") /\ req'[r] # req[r] /\ dirty /\ ~dirty'

\* The lock is handed back whatever the candidate holds.
SlipCheckCall(r) ==
    /\ At(r, "check")
    /\ IF cand = None THEN Quit(r) ELSE Continue(r)
    /\ UNCHANGED <<engineVars, mode, ghosts, accessVars>>

\* endOneShot: Candidate first ...
CheckCall(r) ==
    /\ At(r, "check")
    /\ IF cand = None \/ dirty THEN Quit(r) ELSE Continue(r)
    /\ UNCHANGED <<engineVars, mode, ghosts, accessVars>>

\* ... and Release, a call of its own, if that one was clean.
ReleaseCall(r) ==
    /\ At(r, "release")
    /\ IF Editing(req[r].holder) THEN ReleaseLocked ELSE UNCHANGED <<engineVars, kept>>
    /\ Continue(r)
    /\ UNCHANGED <<mode, wish, mixed, accessVars>>

\* exit of the configuration mode: a dirty candidate, whoever edits it, keeps
\* the session there; no candidate is no obstacle.
ExitCheckCall(r) ==
    /\ At(r, "exit")
    /\ IF cand # None /\ dirty
       THEN Quit(r) /\ UNCHANGED mode
       ELSE Continue(r) /\ mode' = mode \ {req[r].holder}
    /\ UNCHANGED <<engineVars, ghosts, accessVars>>

\* Discard: the candidate and the lock go.
DiscardCall(r) ==
    LET h == req[r].holder
    IN /\ At(r, "discard")
       /\ IF Editing(h)
          THEN ReleaseLocked /\ wish' = [wish EXCEPT ![h] = None]
          ELSE UNCHANGED <<engineVars, kept, wish>>
       /\ Continue(r)
       /\ UNCHANGED <<mode, mixed, accessVars>>

\* The end of handleLogout.
TokenCall(r) ==
    /\ At(r, "token") /\ DropToken(req[r].token) /\ Continue(r)
    /\ UNCHANGED <<engineVars, mode, ghosts>>

\* Rollback 1: the candidate becomes the revision before the latest.
RollbackCall(r) ==
    LET h == req[r].holder
    IN /\ At(r, "rollback")
       /\ IF Editing(h)
          THEN /\ pending' = None
               /\ IF older = None
                  THEN Fail(r) /\ UNCHANGED <<cand, dirty, wish>>
                  ELSE /\ cand' = older /\ dirty' = TRUE
                       /\ wish' = [wish EXCEPT ![h] = older]
                       /\ Continue(r)
          ELSE Fail(r) /\ UNCHANGED <<cand, dirty, wish, pending>>
       /\ UNCHANGED <<lock, holder, committed, older, mode, kept, mixed, accessVars>>

\* ConfirmCommit needs no lock.
ConfirmCall(r) ==
    /\ At(r, "confirm") /\ pending' = None /\ Continue(r)
    /\ UNCHANGED <<lock, holder, cand, dirty, committed, older, mode, ghosts, accessVars>>

Call(r) == \/ EditCall(r) \/ ReadCall(r) \/ UpdateCall(r) \/ MergeCall(r)
           \/ CheckCall(r) \/ ReleaseCall(r) \/ ExitCheckCall(r) \/ DiscardCall(r)
           \/ TokenCall(r) \/ RollbackCall(r) \/ ConfirmCall(r)
-----------------------------------------------------------------------------
\* A request of h begins once its token is verified.  Requests of one holder
\* that overlap are remembered, until all of them are over and the lock is free.
Begin(r, h, request) ==
    /\ req[r] = Done
    /\ \E t \in Tokens :
          /\ Verified(t, h[1])
          /\ req' = [req EXCEPT ![r] = [request EXCEPT !.holder = h, !.token = t]]
    /\ LET over == Busy(h) = {} /\ holder # h
       IN /\ mixed' = IF Busy(h) # {} THEN mixed \cup {h} ELSE IF over THEN mixed \ {h} ELSE mixed
          /\ wish' = IF over /\ h \in mixed THEN [wish EXCEPT ![h] = None] ELSE wish
    /\ UNCHANGED <<engineVars, mode, kept>>

Prog(calls) == [Done EXCEPT !.prog = calls]
Closing(one) == IF one THEN <<"check", "release">> ELSE <<>>

\* mutateCandidate, mutateLoginUsers: one resource; with X-NFVIS-Auto-Commit, and
\* always for login users, committed at once and the lock handed back.
Resource(op, auto) ==
    [Prog(IF auto THEN <<"edit", "read", "update", "commit", "check", "release">>
                  ELSE <<"edit", "read", "update">>) EXCEPT !.closing = Closing(auto), !.op = op]

\* handlePutCandidate.
Put(body, auto) ==
    [Prog(IF auto THEN <<"edit", "update", "commit", "check", "release">>
                  ELSE <<"edit", "update">>) EXCEPT !.closing = Closing(auto), !.view = body]
Merge(i, auto) ==
    [Prog(IF auto THEN <<"edit", "merge", "commit", "check", "release">> ELSE <<"edit", "merge">>)
       EXCEPT !.closing = Closing(auto), !.op = [add |-> TRUE, item |-> i]]

RestRequests ==
    {Resource(op, auto) : op \in Ops, auto \in BOOLEAN}
    \cup {Put(body, auto) : body \in Configs, auto \in BOOLEAN}
    \cup {Merge(i, auto) : i \in Items, auto \in BOOLEAN}
    \cup {[Prog(<<"commit">>) EXCEPT !.confirm = c] : c \in BOOLEAN}
    \cup {Prog(<<"confirm">>), Prog(<<"rollback">>), Prog(<<"discard">>)}
    \cup {Prog(<<"discard", "token">>)}                       \* handleLogout

\* What a CLI session may run: configuration mode, or operation mode.
CliRequests(h) ==
    IF h \in mode
    THEN {Resource(op, FALSE) : op \in Ops}                   \* set, delete
         \cup {[Prog(<<"commit">>) EXCEPT !.confirm = c] : c \in BOOLEAN}
         \cup {[Prog(<<"commit">>) EXCEPT !.enter = "oper"]}
         \cup {Prog(<<"edit", "rollback">>), Prog(<<"discard">>), Prog(<<"exit", "release">>)}
         \cup {[Prog(<<"edit", "read", "update", "commit">>) EXCEPT !.op = op] : op \in Ops}
    ELSE {[Prog(<<"edit">>) EXCEPT !.enter = "config"]}
         \cup {Resource(op, TRUE) : op \in Ops}               \* commitMutate

Rest(r, u) == \E q \in RestRequests : Begin(r, <<u, "api">>, q)
Cli(r, u) == /\ \A v \in Users : Busy(<<v, "ssh">>) = {}      \* cliExecutor.mu
             /\ \E q \in CliRequests(<<u, "ssh">>) : Begin(r, <<u, "ssh">>, q)

\* exit in operation mode, or run exit: the CLI session is forgotten, not its lock.
ForgetCli(u) ==
    /\ <<u, "ssh">> \in mode /\ Busy(<<u, "ssh">>) = {}
    /\ mode' = mode \ {<<u, "ssh">>}
    /\ UNCHANGED <<engineVars, req, ghosts, accessVars>>

\* The lock was idle for too long and some call sweeps it.
IdleTimeout ==
    /\ lock # None /\ holder # None
    /\ ReleaseLocked
    /\ wish' = [wish EXCEPT ![holder] = None]
    /\ UNCHANGED <<mode, req, mixed, accessVars>>

\* The candidate of the session is left as it was.
SlipConfirmedTimeout ==
    /\ pending # None
    /\ committed' = pending /\ older' = committed /\ pending' = None
    /\ wish' = IF cand = None THEN wish ELSE [wish EXCEPT ![holder] = None]
    /\ UNCHANGED <<lock, holder, cand, dirty, mixed, mode, req, kept, accessVars>>

\* doConfirmedRollback: the base is committed again, and a candidate is replaced
\* by it.  A request in progress may hold a copy from before.
ConfirmedTimeout ==
    /\ pending # None
    /\ committed' = pending /\ older' = committed /\ pending' = None
    /\ IF cand = None
       THEN UNCHANGED <<cand, dirty, wish, mixed>>
       ELSE /\ cand' = pending /\ dirty' = TRUE
            /\ wish' = [wish EXCEPT ![holder] = pending]
            /\ mixed' = IF Busy(holder) # {} THEN mixed \cup {holder} ELSE mixed
    /\ UNCHANGED <<lock, holder, mode, req, kept, accessVars>>

\* nfvisd ends and starts: the row of the lock stays, what was in memory does not.
SessionsRestart ==
    /\ cand' = None /\ holder' = None /\ dirty' = FALSE /\ mode' = {}
    /\ req' = [r \in Requests |-> Done]
    /\ kept' = FALSE /\ wish' = [h \in Holders |-> None] /\ mixed' = {}
    /\ UNCHANGED <<lock, committed, older, pending>>
-----------------------------------------------------------------------------
(***************************************************************************)
(* Edits survive: what the accepted requests of a user add up to, since    *)
(* his last commit or discard, is the candidate, and he holds the lock:    *)
(* no request of another user, no end of a one-shot request, no refused    *)
(* commit and no rejoined session drops or reverts a part of it.  Idle     *)
(* locks and overdue confirmations end it on purpose; requests of one user *)
(* that overlap are exempt, for the code gives no such promise to them.    *)
(***************************************************************************)
EditsSurvive ==
    \A h \in Holders \ mixed :
        wish[h] # None => Editing(h) /\ dirty /\ cand = wish[h]

(***************************************************************************)
(* A commit takes into effect exactly the changes of its own session: the  *)
(* committed configuration of the moment the lock was taken, with the      *)
(* accepted edits of the holder, nothing of an abandoned candidate, of     *)
(* another user or of a revision that is no longer the latest.             *)
(***************************************************************************)
CommitsOwn ==
    [][\A r \in Requests : At(r, "commit") /\ req'[r] # req[r] /\ committed' # committed =>
          req[r].holder \in mixed \/ committed' = wish[req[r].holder]]_<<sessionVars, accessVars>>

(***************************************************************************)
(* The lock is handed back (endOneShot): when no request of the holder is  *)
(* in progress, a lock that is held guards edits, or belongs to a session  *)
(* that goes over several requests.  One-shot requests, however they fail  *)
(* and whatever overlaps them, never leave it behind.                      *)
(***************************************************************************)
LockHandedBack ==
    holder # None /\ Busy(holder) = {} => dirty \/ kept

(***************************************************************************)
(* "A dirty candidate is not released: these are the changes of the        *)
(* operator, they must not be dropped for him" (endOneShot).               *)
(***************************************************************************)
ReleaseSparesEdits ==
    [][\A r \in Requests : At(r, "release") /\ req'[r] # req[r] /\ lock' # lock => ~dirty]_<<sessionVars, accessVars>>

=============================================================================

------------------------------- MODULE Access -------------------------------
(***************************************************************************)
(* Logins, lockouts and tokens: internal/aaa/service.go.  The mutex of the *)
(* service is held through a call, so a call is one step.  Everything is   *)
(* kept in memory and gone after a restart.                                *)
(***************************************************************************)
EXTENDS Integers, Sequences, FiniteSets

CONSTANTS
    Users,        \* names that are tried at the login
    Tokens,       \* bearer tokens; each is issued at most once at a time
    Threshold,    \* lockout-threshold: failures that lock an account
    LockPeriod,   \* lockout-minutes
    TokenTTL,     \* token-ttl
    MaxClock,     \* bound of the clock
    None

ASSUME AccessAssumption ==
    /\ IsFiniteSet(Users) /\ IsFiniteSet(Tokens)
    /\ Threshold \in Nat \ {0} /\ LockPeriod \in Nat \ {0}
    /\ TokenTTL \in Nat /\ MaxClock \in Nat

VARIABLES
    now,       \* the clock
    lockout,   \* Service.lockouts: failures, and the end of the lock (0: never locked)
    tokens,    \* Service.tokens: user and expiry of each issued token
    guesses    \* history: when a password of the user was checked and wrong,
               \* since the last success or restart

accessVars == <<now, lockout, tokens, guesses>>

NoLockout == [failures |-> 0, until |-> 0]

AccessInit ==
    /\ now = 1
    /\ lockout = [u \in Users |-> NoLockout]
    /\ tokens = [t \in Tokens |-> None]
    /\ guesses = [u \in Users |-> <<>>]

AccessTypeOK ==
    /\ now \in 1 .. MaxClock + 1
    /\ lockout \in [Users -> [failures : 0 .. Threshold - 1, until : Nat]]
    /\ tokens \in [Tokens -> [user : Users, expiry : Nat] \cup {None}]
    /\ guesses \in [Users -> Seq(Nat)]

Tick == /\ now <= MaxClock /\ now' = now + 1
        /\ UNCHANGED <<lockout, tokens, guesses>>

\* Every count of failures goes, not only that of a lock that has ended.
SlipSweptLockouts ==
    [u \in Users |-> IF now >= lockout[u].until THEN NoLockout ELSE lockout[u]]

\* sweepLocked: tokens that expired and locks that ended are deleted.
SweptLockouts ==
    [u \in Users |-> IF lockout[u].until # 0 /\ now >= lockout[u].until
                     THEN NoLockout ELSE lockout[u]]
SweptTokens ==
    [t \in Tokens |-> IF tokens[t] # None /\ now > tokens[t].expiry THEN None ELSE tokens[t]]

\* recordFailure: the failure that reaches the threshold locks the account and
\* the count starts again.
Failure(l) ==
    IF l.failures + 1 >= Threshold
    THEN [failures |-> 0, until |-> now + LockPeriod]
    ELSE [l EXCEPT !.failures = @ + 1]

\* Login.  A locked account is refused before the password is looked at; an
\* unknown user counts like a wrong password.
Login(u, right) ==
    /\ UNCHANGED now
    /\ \/ /\ now < SweptLockouts[u].until
          /\ lockout' = SweptLockouts /\ tokens' = SweptTokens
          /\ UNCHANGED guesses
       \/ /\ now >= SweptLockouts[u].until /\ ~right
          /\ lockout' = [SweptLockouts EXCEPT ![u] = Failure(@)]
          /\ guesses' = [guesses EXCEPT ![u] = Append(@, now)]
          /\ tokens' = SweptTokens
       \/ /\ now >= SweptLockouts[u].until /\ right
          /\ lockout' = [SweptLockouts EXCEPT ![u] = NoLockout]
          /\ guesses' = [guesses EXCEPT ![u] = <<>>]
          /\ \E t \in Tokens :
                /\ SweptTokens[t] = None
                /\ tokens' = [SweptTokens EXCEPT ![t] = [user |-> u, expiry |-> now + TokenTTL]]

\* VerifyToken: what auth does before a handler runs.
Verified(t, u) ==
    /\ SweptTokens[t] # None /\ SweptTokens[t].user = u
    /\ tokens' = SweptTokens /\ lockout' = SweptLockouts
    /\ UNCHANGED <<now, guesses>>

\* Logout: the last call of handleLogout.
DropToken(t) ==
    /\ tokens' = [tokens EXCEPT ![t] = None]
    /\ UNCHANGED <<now, lockout, guesses>>

AccessRestart ==
    /\ lockout' = [u \in Users |-> NoLockout]
    /\ tokens' = [t \in Tokens |-> None]
    /\ guesses' = [u \in Users |-> <<>>]
    /\ UNCHANGED now

(***************************************************************************)
(* The lockout bounds the rate of guesses: among Threshold + 1 successive  *)
(* wrong passwords of a user, with no success in between, some two are a   *)
(* lock period apart.  Failures, sweeps by other calls, ends of locks and  *)
(* attempts during a lock come in any order.                               *)
(***************************************************************************)
LockoutBounds ==
    \A u \in Users : \A k \in 1 .. Len(guesses[u]) - Threshold :
        guesses[u][k + Threshold] - guesses[u][k] >= LockPeriod

=============================================================================

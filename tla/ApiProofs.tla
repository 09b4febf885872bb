------------------------------ MODULE ApiProofs -----------------------------
(***************************************************************************)
(* Theorems about Api: what its specification guarantees of the lockout    *)
(* (Access), of the edits and the lock of a user (Sessions), and of what   *)
(* the clients of the event bus know of the alarms (Events), for any       *)
(* number of users, tokens, requests and items, any alarms and clients,    *)
(* and every length of the buffers and of the history.                     *)
(***************************************************************************)
EXTENDS Api, FiniteSetTheorems, SequenceTheorems, TLAPS

-----------------------------------------------------------------------------
(* Access *)

AccessNext ==
    \/ \E u \in Users, right \in BOOLEAN : Login(u, right)
    \/ Tick
    \/ \E t \in Tokens, u \in Users : Verified(t, u)
    \/ \E t \in Tokens \cup {None} : DropToken(t)
    \/ AccessRestart
    \/ UNCHANGED accessVars

\* How many guesses of u there were up to the one that locked the account last.
Settled(u) == Len(guesses[u]) - lockout[u].failures

\* The guesses are in order.  The counter counts those after the last lock, and they
\* came when that lock had ended.
GuessInv(u) ==
    /\ \A k \in 1 .. Len(guesses[u]) : guesses[u][k] <= now
    /\ \A k, j \in 1 .. Len(guesses[u]) : k <= j => guesses[u][k] <= guesses[u][j]
    /\ Settled(u) >= 0
    /\ lockout[u].until # 0 => /\ lockout[u].failures = 0 /\ Settled(u) > 0
                               /\ lockout[u].until = guesses[u][Settled(u)] + LockPeriod
    /\ Settled(u) > 0 /\ lockout[u].until = 0 => now >= guesses[u][Settled(u)] + LockPeriod
    /\ Settled(u) > 0 => \A j \in Settled(u) + 1 .. Len(guesses[u]) :
                            guesses[u][j] >= guesses[u][Settled(u)] + LockPeriod

AccessInv == AccessTypeOK /\ LockoutBounds /\ \A u \in Users : GuessInv(u)

LEMMA SweepType ==
    ASSUME AccessTypeOK
    PROVE  /\ SweptLockouts \in [Users -> [failures : 0 .. Threshold - 1, until : Nat]]
           /\ SweptTokens \in [Tokens -> [user : Users, expiry : Nat] \cup {None}]
<1>1. NoLockout \in [failures : 0 .. Threshold - 1, until : Nat]
    BY AccessAssumption DEF NoLockout
<1> QED
    BY <1>1 DEF AccessTypeOK, SweptLockouts, SweptTokens

LEMMA AccessType == AccessTypeOK /\ AccessNext => AccessTypeOK'
<1> SUFFICES ASSUME AccessTypeOK, AccessNext PROVE AccessTypeOK'
    OBVIOUS
<1>0. NoLockout \in [failures : 0 .. Threshold - 1, until : Nat]
    BY AccessAssumption DEF NoLockout
<1>a. now \in Nat
    BY AccessAssumption DEF AccessTypeOK
<1>1. ASSUME NEW u \in Users, NEW right \in BOOLEAN, Login(u, right) PROVE AccessTypeOK'
    <2>1. /\ lockout' \in [Users -> [failures : 0 .. Threshold - 1, until : Nat]]
        <3>1. Failure(SweptLockouts[u]) \in [failures : 0 .. Threshold - 1, until : Nat]
            BY <1>a, SweepType, AccessAssumption DEF Failure
        <3> QED
            BY <1>0, <1>1, <3>1, SweepType DEF Login
    <2>2. tokens' \in [Tokens -> [user : Users, expiry : Nat] \cup {None}]
        <3>1. [user |-> u, expiry |-> now + TokenTTL] \in [user : Users, expiry : Nat]
            BY <1>a, AccessAssumption
        <3> QED
            BY <1>1, <3>1, SweepType DEF Login
    <2>3. guesses' \in [Users -> Seq(Nat)]
        <3>1. << >> \in Seq(Nat) /\ Append(guesses[u], now) \in Seq(Nat)
            BY <1>a, AppendProperties DEF AccessTypeOK
        <3> QED
            BY <1>1, <3>1 DEF Login, AccessTypeOK
    <2> QED
        BY <1>1, <2>1, <2>2, <2>3 DEF Login, AccessTypeOK
<1>2. CASE Tick
    BY <1>2, AccessAssumption DEF Tick, AccessTypeOK
<1>3. ASSUME NEW t \in Tokens, NEW u \in Users, Verified(t, u) PROVE AccessTypeOK'
    BY <1>3, SweepType DEF Verified, AccessTypeOK
<1>4. ASSUME NEW t \in Tokens \cup {None}, DropToken(t) PROVE AccessTypeOK'
    BY <1>4 DEF DropToken, AccessTypeOK
<1>5. CASE AccessRestart
    <2>1. << >> \in Seq(Nat)
        OBVIOUS
    <2> QED
        BY <1>0, <1>5, <2>1 DEF AccessRestart, AccessTypeOK
<1>6. CASE UNCHANGED accessVars
    BY <1>6 DEF accessVars, AccessTypeOK
<1> QED
    BY <1>1, <1>2, <1>3, <1>4, <1>5, <1>6 DEF AccessNext

\* The guesses of u are as before, and its counter was at most swept.
LEMMA SweptGuesses ==
    ASSUME AccessInv, AccessTypeOK', NEW u \in Users, guesses'[u] = guesses[u], now' >= now,
           lockout'[u] = lockout[u] \/ (lockout[u].until # 0 /\ now' >= lockout[u].until
                                        /\ lockout'[u] = NoLockout)
    PROVE  GuessInv(u)'
<1> DEFINE g == guesses[u]
           m == Settled(u)
<1>1. /\ g \in Seq(Nat) /\ Len(g) \in Nat /\ now \in Nat /\ now' \in Nat /\ LockPeriod \in Nat
      /\ lockout[u].failures \in Nat /\ lockout[u].until \in Nat
    BY AccessAssumption DEF AccessInv, AccessTypeOK
<1>2. GuessInv(u)
    BY DEF AccessInv
<1>3. Settled(u)' = m
    BY <1>1, <1>2 DEF Settled, GuessInv, NoLockout
<1>4. m \in Int /\ \A k \in 1 .. Len(g) : g[k] \in Nat
    BY <1>1 DEF Settled
<1>5. m <= Len(g)
    BY <1>1 DEF Settled
<1>6. lockout'[u].until # 0 => lockout'[u] = lockout[u]
    BY DEF NoLockout
<1>7. lockout'[u].until = 0 /\ m > 0 => now' >= g[m] + LockPeriod
    <2> SUFFICES ASSUME lockout'[u].until = 0, m > 0 PROVE now' >= g[m] + LockPeriod
        OBVIOUS
    <2>1. m \in 1 .. Len(g) /\ g[m] \in Nat
        BY <1>4, <1>5
    <2>2. CASE lockout'[u] = lockout[u]
        BY <1>1, <1>2, <2>1, <2>2, SMTT(30) DEF GuessInv
    <2>3. CASE lockout[u].until # 0 /\ now' >= lockout[u].until
        BY <1>1, <1>2, <2>1, <2>3 DEF GuessInv
    <2> QED
        BY <2>2, <2>3
<1>8. \A k \in 1 .. Len(g) : g[k] <= now'
    BY <1>1, <1>2, <1>4 DEF GuessInv
<1> QED
    BY <1>2, <1>3, <1>6, <1>7, <1>8 DEF GuessInv

\* A wrong password that is counted.
LEMMA CountedGuess ==
    ASSUME AccessInv, AccessTypeOK', NEW u \in Users, now' = now,
           now >= SweptLockouts[u].until, lockout'[u] = Failure(SweptLockouts[u]),
           guesses'[u] = Append(guesses[u], now)
    PROVE  /\ GuessInv(u)'
           /\ \A k \in 1 .. Len(guesses'[u]) - Threshold :
                 guesses'[u][k + Threshold] - guesses'[u][k] >= LockPeriod
<1> DEFINE g == guesses[u]
           n == Len(g)
           m == Settled(u)
           gg == guesses'[u]
           f == lockout[u].failures
           t == lockout[u].until
           P == LockPeriod
<1>1. /\ g \in Seq(Nat) /\ n \in Nat /\ now \in Nat \ {0} /\ P \in Nat \ {0}
      /\ Threshold \in Nat \ {0} /\ f \in 0 .. Threshold - 1 /\ t \in Nat
    BY AccessAssumption DEF AccessInv, AccessTypeOK
<1>2. /\ m = n - f /\ m >= 0
      /\ t # 0 => f = 0 /\ m > 0 /\ t = g[m] + P
      /\ m > 0 /\ t = 0 => now >= g[m] + P
      /\ m > 0 => \A j \in m + 1 .. n : g[j] >= g[m] + P
    BY DEF AccessInv, Settled, GuessInv
<1>3. \A k \in 1 .. n : g[k] <= now /\ \A j \in 1 .. n : k <= j => g[k] <= g[j]
    BY DEF AccessInv, GuessInv
<1>4. \A k \in 1 .. n - Threshold : g[k + Threshold] - g[k] >= P
    BY DEF AccessInv, LockoutBounds
<1>5. /\ Len(gg) = n + 1 /\ gg[n + 1] = now
      /\ \A k \in 1 .. n : gg[k] = g[k] /\ g[k] \in Nat
    BY <1>1, AppendProperties, SMTT(30)
\* the lock that there may have been is over
<1>6. SweptLockouts[u] = [failures |-> f, until |-> 0] /\ (t # 0 => now >= t)
    <2>1. t # 0 => now >= t
        BY <1>1 DEF SweptLockouts
    <2>2. CASE t = 0
        <3>1. SweptLockouts[u] = lockout[u]
            BY <2>2 DEF SweptLockouts
        <3> QED
            BY <2>2, <3>1, <1>1 DEF AccessInv, AccessTypeOK
    <2>3. CASE t # 0
        <3>1. SweptLockouts[u] = NoLockout
            BY <2>1, <2>3 DEF SweptLockouts
        <3> QED
            BY <1>2, <2>1, <2>3, <3>1 DEF NoLockout
    <2> QED
        BY <2>2, <2>3, <2>1
<1>7. /\ f + 1 >= Threshold => lockout'[u] = [failures |-> 0, until |-> now + P]
      /\ f + 1 < Threshold => lockout'[u] = [failures |-> f + 1, until |-> 0]
    BY <1>1, <1>6 DEF Failure
<1>8. Settled(u)' = IF f + 1 >= Threshold THEN n + 1 ELSE m
    <2>1. Settled(u)' = Len(gg) - lockout'[u].failures
        BY DEF Settled
    <2> HIDE DEF n, m, f, gg, g
    <2>2. f \in Int /\ n \in Int /\ m = n - f /\ Threshold \in Int
        BY <1>1, <1>2
    <2>3. CASE f + 1 >= Threshold
        BY <1>5, <1>7, <2>1, <2>2, <2>3
    <2>4. CASE ~(f + 1 >= Threshold)
        <3>1. lockout'[u].failures = f + 1 /\ Len(gg) = n + 1
            BY <1>5, <1>7, <2>2, <2>4
        <3>2. n + 1 - (f + 1) = n - f
            BY <2>2
        <3> QED
            BY <2>1, <2>2, <2>4, <3>1, <3>2
    <2> QED
        BY <2>3, <2>4
<1>a. GuessInv(u)' <=>
        /\ \A k \in 1 .. Len(gg) : gg[k] <= now
        /\ \A k, j \in 1 .. Len(gg) : k <= j => gg[k] <= gg[j]
        /\ Settled(u)' >= 0
        /\ lockout'[u].until # 0 => /\ lockout'[u].failures = 0 /\ Settled(u)' > 0
                                    /\ lockout'[u].until = gg[Settled(u)'] + P
        /\ Settled(u)' > 0 /\ lockout'[u].until = 0 => now >= gg[Settled(u)'] + P
        /\ Settled(u)' > 0 => \A j \in Settled(u)' + 1 .. Len(gg) : gg[j] >= gg[Settled(u)'] + P
    BY DEF GuessInv
<1>c. SUFFICES /\ GuessInv(u)'
               /\ \A k \in 1 .. Len(gg) - Threshold : gg[k + Threshold] - gg[k] >= P
    OBVIOUS
<1> HIDE DEF g, n, m, gg, f, t, P
<1>b. m \in 0 .. n
    BY <1>1, <1>2
<1>9. m > 0 => now >= g[m] + P
    BY <1>2, <1>6
<1>10. \A k \in 1 .. m : g[k] + P <= now
    <2> SUFFICES ASSUME NEW k \in 1 .. m PROVE g[k] + P <= now
        OBVIOUS
    <2>1. m > 0 /\ m \in 1 .. n /\ k \in 1 .. n /\ k <= m
        BY <1>1, <1>b
    <2>2. g[k] <= g[m]
        BY <1>3, <2>1
    <2>3. g[k] \in Nat /\ g[m] \in Nat
        BY <1>5, <2>1
    <2> QED
        BY <1>1, <1>9, <2>1, <2>2, <2>3, SMTT(30)
<1>11. /\ \A k \in 1 .. n + 1 : gg[k] <= now
       /\ \A k, j \in 1 .. n + 1 : k <= j => gg[k] <= gg[j]
    <2>1. \A k \in 1 .. n + 1 : k \in 1 .. n \/ k = n + 1
        BY <1>1
    <2>2. \A k \in 1 .. n + 1 : gg[k] <= now
        BY <1>1, <1>3, <1>5, <2>1, SMTT(30)
    <2>3. ASSUME NEW k \in 1 .. n + 1, NEW j \in 1 .. n + 1, k <= j PROVE gg[k] <= gg[j]
        <3>1. CASE j = n + 1
            BY <1>5, <2>2, <3>1
        <3>2. CASE j \in 1 .. n
            <4>1. k \in 1 .. n
                BY <1>1, <2>3, <3>2
            <4> QED
                BY <1>3, <1>5, <2>3, <3>2, <4>1
        <3> QED
            BY <2>1, <3>1, <3>2
    <2> QED
        BY <2>2, <2>3
<1>12. \A k \in 1 .. n + 1 - Threshold : gg[k + Threshold] - gg[k] >= P
    <2> SUFFICES ASSUME NEW k \in 1 .. n + 1 - Threshold
                 PROVE  gg[k + Threshold] - gg[k] >= P
        OBVIOUS
    <2>0. k \in 1 .. n /\ gg[k] = g[k] /\ g[k] \in Nat
        BY <1>1, <1>5
    <2>1. CASE k + Threshold <= n
        <3>1. k \in 1 .. n - Threshold /\ k + Threshold \in 1 .. n
            BY <1>1, <2>1
        <3> QED
            BY <1>4, <1>5, <2>0, <3>1
    <2>2. CASE k + Threshold = n + 1
        <3>1. k \in 1 .. m
            BY <1>1, <1>2, <2>2
        <3>2. gg[k + Threshold] = now /\ g[k] + P <= now
            BY <1>5, <1>10, <2>2, <3>1
        <3> QED
            BY <1>1, <2>0, <3>2, SMTT(30)
    <2> QED
        BY <1>1, <2>1, <2>2
<1>d. \A k \in 1 .. Len(gg) - Threshold : gg[k + Threshold] - gg[k] >= P
    <2>1. Len(gg) = n + 1
        BY <1>5, Zenon
    <2> SUFFICES ASSUME NEW k \in 1 .. Len(gg) - Threshold
                 PROVE  gg[k + Threshold] - gg[k] >= P
        OBVIOUS
    <2>2. n \in Nat /\ Threshold \in Nat
        BY <1>1
    <2>3. k \in 1 .. n + 1 - Threshold
        BY <2>1, <2>2
    <2> QED
        BY <1>12, <2>3
<1>13. CASE f + 1 >= Threshold
    <2>1. Settled(u)' = n + 1 /\ lockout'[u].failures = 0 /\ lockout'[u].until = now + P
        BY <1>7, <1>8, <1>13
    <2>2. now + P # 0 /\ n + 1 > 0 /\ n + 1 >= 0 /\ n + 1 + 1 .. n + 1 = {}
        BY <1>1
    <2> QED
        <3>1. GuessInv(u)'
            BY <1>a, <1>5, <1>11, <2>1, <2>2
        <3> QED
            BY <1>d, <3>1
<1>14. CASE f + 1 < Threshold
    <2>1. Settled(u)' = m /\ lockout'[u].until = 0
        BY <1>1, <1>7, <1>8, <1>14
    <2>2. m > 0 => gg[m] = g[m] /\ \A j \in m + 1 .. n + 1 : gg[j] >= gg[m] + P
        <3> SUFFICES ASSUME m > 0
                     PROVE  gg[m] = g[m] /\ \A j \in m + 1 .. n + 1 : gg[j] >= gg[m] + P
            OBVIOUS
        <3>1. gg[m] = g[m]
            BY <1>5, <1>b
        <3>2. \A j \in m + 1 .. n + 1 : j \in m + 1 .. n \/ j = n + 1
            BY <1>1, <1>b
        <3>3. \A j \in m + 1 .. n : gg[j] = g[j]
            BY <1>1, <1>5, <1>b
        <3> QED
            BY <1>2, <1>5, <1>9, <3>1, <3>2, <3>3
    <2> QED
        <3>1. GuessInv(u)'
            BY <1>a, <1>2, <1>5, <1>9, <1>11, <2>1, <2>2
        <3> QED
            BY <1>d, <3>1
<1> QED
    BY <1>1, <1>13, <1>14

LEMMA AccessStep == AccessInv /\ AccessNext => AccessInv'
<1> SUFFICES ASSUME AccessInv, AccessNext PROVE AccessInv'
    OBVIOUS
<1>0. AccessTypeOK'
    BY AccessType DEF AccessInv
<1>a. now \in Nat /\ now' \in Nat
    BY <1>0, AccessAssumption DEF AccessInv, AccessTypeOK
<1> DEFINE Bounded(g) == \A k \in 1 .. Len(g) - Threshold : g[k + Threshold] - g[k] >= LockPeriod
<1>b. \A u \in Users : Bounded(guesses[u])
    BY DEF AccessInv, LockoutBounds
<1> SUFFICES ASSUME NEW v \in Users PROVE GuessInv(v)' /\ Bounded(guesses'[v])
    BY <1>0 DEF AccessInv, LockoutBounds
<1>c. ASSUME guesses'[v] = << >>, lockout'[v] = NoLockout
      PROVE  GuessInv(v)' /\ Bounded(guesses'[v])
    <2>1. Len(guesses'[v]) = 0 /\ Settled(v)' = 0
        BY <1>c DEF Settled, NoLockout
    <2> QED
        BY <1>c, <2>1, AccessAssumption DEF GuessInv, NoLockout
<1>d. /\ SweptLockouts[v] = lockout[v]
         \/ (lockout[v].until # 0 /\ now >= lockout[v].until /\ SweptLockouts[v] = NoLockout)
      /\ \A l : [SweptLockouts EXCEPT ![v] = l][v] = l
    BY DEF SweptLockouts
<1>1. ASSUME NEW u \in Users, NEW right \in BOOLEAN, Login(u, right)
      PROVE  GuessInv(v)' /\ Bounded(guesses'[v])
    <2>1. now' = now
        BY <1>1 DEF Login
    <2>2. CASE lockout' = SweptLockouts /\ guesses' = guesses
        <3>1. GuessInv(v)'
            BY <1>0, <1>a, <1>d, <2>1, <2>2, SweptGuesses
        <3> QED
            BY <1>b, <2>2, <3>1
    <2>3. CASE v # u /\ ~(lockout' = SweptLockouts /\ guesses' = guesses)
        <3>1. guesses'[v] = guesses[v] /\ lockout'[v] = SweptLockouts[v]
            BY <1>1, <2>3 DEF Login, AccessInv, AccessTypeOK, SweptLockouts
        <3>2. GuessInv(v)'
            BY <1>0, <1>a, <1>d, <2>1, <3>1, SweptGuesses
        <3> QED
            BY <1>b, <3>1, <3>2
    <2>4. CASE v = u /\ ~(lockout' = SweptLockouts /\ guesses' = guesses) /\ ~right
        <3>1. /\ now >= SweptLockouts[v].until /\ lockout'[v] = Failure(SweptLockouts[v])
              /\ guesses'[v] = Append(guesses[v], now)
            BY <1>1, <2>4 DEF Login, AccessInv, AccessTypeOK, SweptLockouts
        <3> QED
            BY <1>0, <2>1, <3>1, CountedGuess
    <2>5. CASE v = u /\ ~(lockout' = SweptLockouts /\ guesses' = guesses) /\ right
        <3>1. guesses'[v] = << >> /\ lockout'[v] = NoLockout
            BY <1>1, <2>5 DEF Login, AccessInv, AccessTypeOK, SweptLockouts
        <3> QED
            BY <1>c, <3>1
    <2> QED
        BY <2>2, <2>3, <2>4, <2>5
<1>2. CASE guesses' = guesses /\ lockout' = lockout /\ now' >= now
    <2>1. GuessInv(v)'
        BY <1>0, <1>2, SweptGuesses
    <2> QED
        BY <1>b, <1>2, <2>1
<1>3. ASSUME NEW t \in Tokens, NEW u \in Users, Verified(t, u)
      PROVE  GuessInv(v)' /\ Bounded(guesses'[v])
    <2>1. guesses' = guesses /\ lockout' = SweptLockouts /\ now' = now
        BY <1>3 DEF Verified
    <2>2. GuessInv(v)'
        BY <1>0, <1>a, <1>d, <2>1, SweptGuesses
    <2> QED
        BY <1>b, <2>1, <2>2
<1>4. CASE AccessRestart
    BY <1>4, <1>c DEF AccessRestart
<1>5. CASE Tick \/ (\E t \in Tokens \cup {None} : DropToken(t)) \/ UNCHANGED accessVars
    BY <1>a, <1>2, <1>5 DEF Tick, DropToken, accessVars
<1> QED
    BY <1>1, <1>3, <1>4, <1>5 DEF AccessNext

-----------------------------------------------------------------------------
(* Requests *)

\* What a program p looks like, with the change op it makes and what it defers: a
\* candidate is read before it is replaced, what is released was checked, and what
\* is deferred comes last.
Shape(p, closing, op) ==
    /\ \A k \in 1 .. Len(p) :
         /\ p[k] = "edit" => k = 1
         /\ p[k] = "read" => k < Len(p)
         /\ p[k] = "release" => k = Len(p)
         /\ p[k] \in {"read", "merge"} => op # None
         /\ p[k] = "update" /\ k > 1 => p[k - 1] = IF op = None THEN "edit" ELSE "read"
         /\ p[k] = "release" /\ k > 1 => p[k - 1] \in {"check", "exit"}
    /\ closing # <<>> => /\ closing = <<"check", "release">>
                         /\ p[Len(p)] = "release" /\ (Len(p) > 1 => p[Len(p) - 1] = "check")

Working(q) == /\ q.holder \in Holders /\ q.prog # <<>>
              /\ Shape(q.prog, q.closing, q.op)

\* A request as it arrives.
Arriving(q) == /\ q \in Request /\ q.prog # <<>> /\ Shape(q.prog, q.closing, q.op)
               /\ Head(q.prog) \notin {"update", "release"}

LEMMA DoneType == /\ Done \in Request /\ Done.holder = None /\ Done.prog = <<>>
                  /\ Done.closing = <<>> /\ Done.op = None
<1>1. << >> \in Seq(EngineCalls) /\ {} \in Configs
    BY DEF Configs
<1> QED
    BY <1>1 DEF Done, Request

\* Requests that differ from a bare program in some fields.
LEMMA BareType ==
    ASSUME NEW p \in Seq(EngineCalls)
    PROVE  /\ Prog(p) \in Request /\ Prog(p).prog = p /\ Prog(p).closing = <<>>
           /\ Prog(p).op = None
BY DoneType DEF Prog, Request

LEMMA BareArrives ==
    ASSUME NEW p \in Seq(EngineCalls), p # <<>>, Head(p) \notin {"update", "release"},
           Shape(p, <<>>, None)
    PROVE  /\ Arriving(Prog(p))
           /\ \A confirm \in BOOLEAN : Arriving([Prog(p) EXCEPT !.confirm = confirm])
           /\ \A enter \in {"config", "oper"} : Arriving([Prog(p) EXCEPT !.enter = enter])
<1> DEFINE a == Prog(p)
<1>1. a \in Request /\ a.prog = p /\ a.closing = <<>> /\ a.op = None
    BY BareType
<1> HIDE DEF a
<1>2. /\ \A confirm \in BOOLEAN : [a EXCEPT !.confirm = confirm] \in Request
      /\ \A enter \in {"config", "oper"} : [a EXCEPT !.enter = enter] \in Request
    BY <1>1 DEF Request
<1>3. /\ Arriving(a)
      /\ \A confirm \in BOOLEAN : Arriving([a EXCEPT !.confirm = confirm])
      /\ \A enter \in {"config", "oper"} : Arriving([a EXCEPT !.enter = enter])
    BY <1>1, <1>2 DEF Arriving, Request
<1> QED
    BY <1>3 DEF a

LEMMA PutArrives ==
    ASSUME NEW p \in Seq(EngineCalls), p # <<>>, Head(p) \notin {"update", "release"},
           NEW closing \in Seq(EngineCalls), Shape(p, closing, None), NEW view \in Configs
    PROVE  Arriving([Prog(p) EXCEPT !.closing = closing, !.view = view])
<1> DEFINE a == Prog(p)
           b == [a EXCEPT !.closing = closing]
           c == [b EXCEPT !.view = view]
<1>1. a \in Request /\ a.prog = p /\ a.op = None
    BY BareType
<1>2. [a EXCEPT !.closing = closing, !.view = view] = c
    OBVIOUS
<1> HIDE DEF a
<1>3. b \in Request /\ b.prog = p /\ b.closing = closing /\ b.op = None
    BY <1>1 DEF Request
<1> HIDE DEF b
<1>4. c \in Request /\ c.prog = p /\ c.closing = closing /\ c.op = None
    BY <1>3 DEF Request
<1> HIDE DEF c
<1>5. Arriving(c)
    BY <1>4 DEF Arriving
<1> QED
    BY <1>2, <1>5 DEF a

LEMMA ChangeArrives ==
    ASSUME NEW p \in Seq(EngineCalls), p # <<>>, Head(p) \notin {"update", "release"},
           NEW closing \in Seq(EngineCalls), NEW op \in Ops, Shape(p, closing, op)
    PROVE  Arriving([Prog(p) EXCEPT !.closing = closing, !.op = op])
<1> DEFINE a == Prog(p)
           b == [a EXCEPT !.closing = closing]
           c == [b EXCEPT !.op = op]
<1>1. a \in Request /\ a.prog = p
    BY BareType
<1>2. [a EXCEPT !.closing = closing, !.op = op] = c
    OBVIOUS
<1> HIDE DEF a
<1>3. b \in Request /\ b.prog = p /\ b.closing = closing
    BY <1>1 DEF Request
<1> HIDE DEF b
<1>4. c \in Request /\ c.prog = p /\ c.closing = closing /\ c.op = op
    BY <1>3 DEF Request
<1> HIDE DEF c
<1>5. Arriving(c)
    BY <1>4 DEF Arriving
<1> QED
    BY <1>2, <1>5 DEF a

LEMMA EditArrives ==
    ASSUME NEW p \in Seq(EngineCalls), p # <<>>, Head(p) \notin {"update", "release"},
           NEW op \in Ops, Shape(p, <<>>, op)
    PROVE  Arriving([Prog(p) EXCEPT !.op = op])
<1> DEFINE a == Prog(p)
           d == [a EXCEPT !.op = op]
<1>1. a \in Request /\ a.prog = p /\ a.closing = <<>>
    BY BareType
<1> HIDE DEF a
<1>2. d \in Request /\ d.prog = p /\ d.closing = <<>> /\ d.op = op
    BY <1>1 DEF Request
<1> HIDE DEF d
<1>3. Arriving(d)
    BY <1>2 DEF Arriving
<1> QED
    BY <1>3 DEF a, d

\* The programs of the handlers and of the commands.
LEMMA Shapes ==
    ASSUME NEW op
    PROVE  LET one == <<"check", "release">>
           IN /\ op # None =>
                   /\ Shape(<<"edit", "read", "update", "commit", "check", "release">>, one, op)
                   /\ Shape(<<"edit", "read", "update">>, <<>>, op)
                   /\ Shape(<<"edit", "read", "update", "commit">>, <<>>, op)
                   /\ Shape(<<"edit", "merge", "commit", "check", "release">>, one, op)
                   /\ Shape(<<"edit", "merge">>, <<>>, op)
              /\ op = None =>
                   /\ Shape(<<"edit", "update", "commit", "check", "release">>, one, op)
                   /\ Shape(<<"edit", "update">>, <<>>, op)
              /\ Shape(<<"commit">>, <<>>, op) /\ Shape(<<"confirm">>, <<>>, op)
              /\ Shape(<<"rollback">>, <<>>, op) /\ Shape(<<"discard">>, <<>>, op)
              /\ Shape(<<"discard", "token">>, <<>>, op) /\ Shape(<<"edit", "rollback">>, <<>>, op)
              /\ Shape(<<"exit", "release">>, <<>>, op) /\ Shape(<<"edit">>, <<>>, op)
<1>1. ASSUME op # None PROVE Shape(<<"edit", "read", "update", "commit", "check", "release">>,
                                   <<"check", "release">>, op)
    BY <1>1 DEF Shape
<1>2. ASSUME op # None PROVE Shape(<<"edit", "read", "update">>, <<>>, op)
    BY <1>2 DEF Shape
<1>3. ASSUME op # None PROVE Shape(<<"edit", "read", "update", "commit">>, <<>>, op)
    BY <1>3 DEF Shape
<1>4. ASSUME op # None PROVE Shape(<<"edit", "merge", "commit", "check", "release">>,
                                   <<"check", "release">>, op)
    BY <1>4 DEF Shape
<1>5. ASSUME op # None PROVE Shape(<<"edit", "merge">>, <<>>, op)
    BY <1>5 DEF Shape
<1>6. ASSUME op = None PROVE Shape(<<"edit", "update", "commit", "check", "release">>,
                                   <<"check", "release">>, op)
    BY <1>6 DEF Shape
<1>7. ASSUME op = None PROVE Shape(<<"edit", "update">>, <<>>, op)
    BY <1>7 DEF Shape
<1>8. Shape(<<"commit">>, <<>>, op) /\ Shape(<<"confirm">>, <<>>, op)
    BY DEF Shape
<1>9. Shape(<<"rollback">>, <<>>, op) /\ Shape(<<"discard">>, <<>>, op) /\ Shape(<<"edit">>, <<>>, op)
    BY DEF Shape
<1>10. Shape(<<"discard", "token">>, <<>>, op) /\ Shape(<<"edit", "rollback">>, <<>>, op)
    BY DEF Shape
<1>11. Shape(<<"exit", "release">>, <<>>, op)
    BY DEF Shape
<1> QED
    BY <1>1, <1>2, <1>3, <1>4, <1>5, <1>6, <1>7, <1>8, <1>9, <1>10, <1>11

LEMMA TailShape ==
    ASSUME NEW p \in Seq(EngineCalls), NEW closing, NEW op, p # <<>>, Shape(p, closing, op)
    PROVE  /\ Tail(p) \in Seq(EngineCalls) /\ Head(p) = p[1]
           /\ Len(p) # 1 => /\ Tail(p) # <<>> /\ Shape(Tail(p), closing, op)
                            /\ Head(Tail(p)) # "edit"
                            /\ Head(Tail(p)) = "update" =>
                                 Head(p) = IF op = None THEN "edit" ELSE "read"
                            /\ Head(Tail(p)) = "release" => Head(p) \in {"check", "exit"}
           /\ Head(p) = "read" => Len(p) # 1
           /\ closing # <<>> => (Len(p) = 1 <=> Head(p) = "release")
<1> DEFINE t == Tail(p)
           n == Len(p)
<1>1. /\ t \in Seq(EngineCalls) /\ Head(p) = p[1] /\ n \in Nat \ {0} /\ Len(t) = n - 1
      /\ \A k \in 1 .. n - 1 : t[k] = p[k + 1]
    BY HeadTailProperties, LenProperties
<1>2. /\ \A k \in 1 .. n : /\ p[k] = "edit" => k = 1
                           /\ p[k] = "read" => k < n
                           /\ p[k] = "release" => k = n
                           /\ p[k] \in {"read", "merge"} => op # None
                           /\ p[k] = "update" /\ k > 1 => p[k - 1] = IF op = None THEN "edit" ELSE "read"
                           /\ p[k] = "release" /\ k > 1 => p[k - 1] \in {"check", "exit"}
      /\ closing # <<>> => /\ closing = <<"check", "release">>
                           /\ p[n] = "release" /\ (n > 1 => p[n - 1] = "check")
    BY DEF Shape
<1> HIDE DEF t, n
<1>3. n # 1 => 2 \in 1 .. n /\ n > 1 /\ 1 \in 1 .. n - 1
    BY <1>1
<1>4. n # 1 => t # <<>> /\ Head(t) = p[2]
    <2>1. n # 1 => Len(t) # 0
        BY <1>1
    <2>2. n # 1 => t # <<>>
        BY <2>1
    <2>3. t # <<>> => Head(t) = t[1]
        BY <1>1, HeadTailProperties
    <2>4. n # 1 => t[1] = p[2]
        BY <1>1, <1>3
    <2> QED
        BY <2>2, <2>3, <2>4
<1>5. n # 1 => /\ p[2] # "edit"
               /\ p[2] = "update" => p[1] = IF op = None THEN "edit" ELSE "read"
               /\ p[2] = "release" => p[1] \in {"check", "exit"}
    BY <1>2, <1>3
<1>6. ASSUME n # 1 PROVE Shape(t, closing, op)
    <2>1. ASSUME NEW k \in 1 .. Len(t)
          PROVE  /\ t[k] = "edit" => k = 1
                 /\ t[k] = "read" => k < Len(t)
                 /\ t[k] = "release" => k = Len(t)
                 /\ t[k] \in {"read", "merge"} => op # None
                 /\ t[k] = "update" /\ k > 1 => t[k - 1] = IF op = None THEN "edit" ELSE "read"
                 /\ t[k] = "release" /\ k > 1 => t[k - 1] \in {"check", "exit"}
        <3>1. k + 1 \in 1 .. n /\ k + 1 > 1 /\ k \in Nat /\ k + 1 - 1 = k /\ t[k] = p[k + 1]
              /\ (k + 1 < n => k < Len(t)) /\ (k + 1 = n => k = Len(t))
            BY <1>1
        <3>2. k > 1 => t[k - 1] = p[k]
            BY <1>1
        <3> QED
            BY <1>2, <3>1, <3>2
    <2>2. closing # <<>> => /\ closing = <<"check", "release">>
                            /\ t[Len(t)] = "release" /\ (Len(t) > 1 => t[Len(t) - 1] = "check")
        <3>1. Len(t) \in 1 .. n - 1 /\ t[Len(t)] = p[n]
            BY <1>1, <1>6
        <3>2. Len(t) > 1 => t[Len(t) - 1] = p[n - 1] /\ n > 1
            BY <1>1
        <3> QED
            BY <1>2, <3>1, <3>2
    <2> QED
        BY <2>1, <2>2 DEF Shape
<1>7. closing # <<>> => (n = 1 <=> p[1] = "release")
    <2>1. p[1] = "release" => n = 1
        BY <1>1, <1>2
    <2> QED
        BY <1>2, <2>1
<1>8. p[1] = "read" => n # 1
    BY <1>1, <1>2
<1> QED
    BY <1>1, <1>4, <1>5, <1>6, <1>7, <1>8 DEF t, n

\* Every request a client can make arrives in this shape.
LEMMA ArrivingRequests ==
    ASSUME NEW h PROVE \A q \in RestRequests \cup CliRequests(h) : Arriving(q)
<1>0. \A op \in Ops : op # None
    BY SessionsAssumption
<1>a. << >> \in Seq(EngineCalls) /\ <<"check", "release">> \in Seq(EngineCalls)
    BY DEF EngineCalls
<1>1. ASSUME NEW op \in Ops, NEW auto \in BOOLEAN PROVE Arriving(Resource(op, auto))
    <2>1. CASE auto
        <3> DEFINE p == <<"edit", "read", "update", "commit", "check", "release">>
        <3>1. p \in Seq(EngineCalls) /\ p # <<>> /\ Head(p) = "edit"
            BY DEF EngineCalls
        <3>2. Shape(p, <<"check", "release">>, op)
            BY <1>0, Shapes
        <3>3. Resource(op, auto) = [Prog(p) EXCEPT !.closing = <<"check", "release">>, !.op = op]
            BY <2>1 DEF Resource, Closing
        <3> HIDE DEF p
        <3> QED
            BY <1>a, <3>1, <3>2, <3>3, ChangeArrives
    <2>2. CASE ~auto
        <3> DEFINE p == <<"edit", "read", "update">>
        <3>1. p \in Seq(EngineCalls) /\ p # <<>> /\ Head(p) = "edit"
            BY DEF EngineCalls
        <3>2. Shape(p, <<>>, op)
            BY <1>0, Shapes
        <3>3. Resource(op, auto) = [Prog(p) EXCEPT !.closing = <<>>, !.op = op]
            BY <2>2 DEF Resource, Closing
        <3> HIDE DEF p
        <3> QED
            BY <1>a, <3>1, <3>2, <3>3, ChangeArrives
    <2> QED
        BY <2>1, <2>2
<1>2. ASSUME NEW body \in Configs, NEW auto \in BOOLEAN PROVE Arriving(Put(body, auto))
    <2>1. CASE auto
        <3> DEFINE p == <<"edit", "update", "commit", "check", "release">>
        <3>1. p \in Seq(EngineCalls) /\ p # <<>> /\ Head(p) = "edit"
            BY DEF EngineCalls
        <3>2. Shape(p, <<"check", "release">>, None)
            BY Shapes
        <3>3. Put(body, auto) = [Prog(p) EXCEPT !.closing = <<"check", "release">>, !.view = body]
            BY <2>1 DEF Put, Closing
        <3> HIDE DEF p
        <3> QED
            BY <1>a, <3>1, <3>2, <3>3, PutArrives
    <2>2. CASE ~auto
        <3> DEFINE p == <<"edit", "update">>
        <3>1. p \in Seq(EngineCalls) /\ p # <<>> /\ Head(p) = "edit"
            BY DEF EngineCalls
        <3>2. Shape(p, <<>>, None)
            BY Shapes
        <3>3. Put(body, auto) = [Prog(p) EXCEPT !.closing = <<>>, !.view = body]
            BY <2>2 DEF Put, Closing
        <3> HIDE DEF p
        <3> QED
            BY <1>a, <3>1, <3>2, <3>3, PutArrives
    <2> QED
        BY <2>1, <2>2
<1>3. ASSUME NEW i \in Items, NEW auto \in BOOLEAN PROVE Arriving(Merge(i, auto))
    <2> DEFINE op == [add |-> TRUE, item |-> i]
    <2>0. op \in Ops
        BY DEF Ops
    <2>1. CASE auto
        <3> DEFINE p == <<"edit", "merge", "commit", "check", "release">>
        <3>1. p \in Seq(EngineCalls) /\ p # <<>> /\ Head(p) = "edit"
            BY DEF EngineCalls
        <3>3. Merge(i, auto) = [Prog(p) EXCEPT !.closing = <<"check", "release">>, !.op = op]
            BY <2>1 DEF Merge, Closing
        <3> HIDE DEF op
        <3>2. Shape(p, <<"check", "release">>, op)
            BY <1>0, <2>0, Shapes
        <3> HIDE DEF p
        <3> QED
            BY <1>a, <2>0, <3>1, <3>2, <3>3, ChangeArrives, ZenonT(30)
    <2>2. CASE ~auto
        <3> DEFINE p == <<"edit", "merge">>
        <3>1. p \in Seq(EngineCalls) /\ p # <<>> /\ Head(p) = "edit"
            BY DEF EngineCalls
        <3>3. Merge(i, auto) = [Prog(p) EXCEPT !.closing = <<>>, !.op = op]
            BY <2>2 DEF Merge, Closing
        <3> HIDE DEF op
        <3>2. Shape(p, <<>>, op)
            BY <1>0, <2>0, Shapes
        <3> HIDE DEF p
        <3> QED
            BY <1>a, <2>0, <3>1, <3>2, <3>3, ChangeArrives
    <2> QED
        BY <2>1, <2>2
<1> DEFINE Bare(p) == /\ p \in Seq(EngineCalls) /\ p # <<>>
                      /\ Head(p) \notin {"update", "release"} /\ Shape(p, <<>>, None)
<1>4. /\ Bare(<<"commit">>) /\ Bare(<<"confirm">>) /\ Bare(<<"rollback">>) /\ Bare(<<"discard">>)
      /\ Bare(<<"discard", "token">>) /\ Bare(<<"edit", "rollback">>)
      /\ Bare(<<"exit", "release">>) /\ Bare(<<"edit">>)
    <2>1. Bare(<<"commit">>) /\ Bare(<<"confirm">>)
        BY Shapes DEF EngineCalls
    <2>2. Bare(<<"rollback">>) /\ Bare(<<"discard">>)
        BY Shapes DEF EngineCalls
    <2>3. Bare(<<"discard", "token">>) /\ Bare(<<"edit", "rollback">>)
        BY Shapes DEF EngineCalls
    <2>4. Bare(<<"exit", "release">>) /\ Bare(<<"edit">>)
        BY Shapes DEF EngineCalls
    <2> QED
        BY <2>1, <2>2, <2>3, <2>4
<1>b. ASSUME NEW p, Bare(p)
      PROVE  /\ Arriving(Prog(p))
             /\ \A confirm \in BOOLEAN : Arriving([Prog(p) EXCEPT !.confirm = confirm])
             /\ \A enter \in {"config", "oper"} : Arriving([Prog(p) EXCEPT !.enter = enter])
    BY <1>b, BareArrives
<1> HIDE DEF Bare
<1>5. ASSUME NEW op \in Ops
      PROVE  Arriving([Prog(<<"edit", "read", "update", "commit">>) EXCEPT !.op = op])
    <2> DEFINE p == <<"edit", "read", "update", "commit">>
    <2>1. p \in Seq(EngineCalls) /\ p # <<>> /\ Head(p) = "edit"
        BY DEF EngineCalls
    <2>2. Shape(p, <<>>, op)
        BY <1>0, Shapes
    <2> HIDE DEF p
    <2>3. Arriving([Prog(p) EXCEPT !.op = op])
        BY <2>1, <2>2, EditArrives
    <2> QED
        BY <2>3 DEF p
<1>6. ASSUME NEW q \in RestRequests PROVE Arriving(q)
    <2>1. CASE \/ \E op \in Ops, auto \in BOOLEAN : q = Resource(op, auto)
               \/ \E body \in Configs, auto \in BOOLEAN : q = Put(body, auto)
               \/ \E i \in Items, auto \in BOOLEAN : q = Merge(i, auto)
        BY <1>1, <1>2, <1>3, <2>1
    <2>2. CASE \E c \in BOOLEAN : q = [Prog(<<"commit">>) EXCEPT !.confirm = c]
        BY <1>4, <1>b, <2>2, ZenonT(30)
    <2>3. CASE q \in {Prog(<<"confirm">>), Prog(<<"rollback">>), Prog(<<"discard">>)}
               \/ q = Prog(<<"discard", "token">>)
        BY <1>4, <1>b, <2>3
    <2> QED
        BY <1>6, <2>1, <2>2, <2>3 DEF RestRequests
<1>7. ASSUME NEW q \in CliRequests(h) PROVE Arriving(q)
    <2>1. CASE \E op \in Ops, auto \in BOOLEAN : q = Resource(op, auto)
        BY <1>1, <2>1
    <2>2. CASE \/ \E c \in BOOLEAN : q = [Prog(<<"commit">>) EXCEPT !.confirm = c]
               \/ q = [Prog(<<"commit">>) EXCEPT !.enter = "oper"]
               \/ q = [Prog(<<"edit">>) EXCEPT !.enter = "config"]
        BY <1>4, <1>b, <2>2, ZenonT(30)
    <2>3. CASE q \in {Prog(<<"edit", "rollback">>), Prog(<<"discard">>), Prog(<<"exit", "release">>)}
        BY <1>4, <1>b, <2>3
    <2>4. CASE \E op \in Ops : q = [Prog(<<"edit", "read", "update", "commit">>) EXCEPT !.op = op]
        BY <1>5, <2>4
    <2> QED
        BY <1>7, <2>1, <2>2, <2>3, <2>4 DEF CliRequests
<1> QED
    BY <1>6, <1>7

-----------------------------------------------------------------------------
(* One call of a request *)

\* Requests in progress are programs; two of one holder have mixed.
RequestInv ==
    \A r \in Requests :
        /\ req[r] = Done \/ Working(req[r])
        /\ \A s \in Requests \ {r} :
              req[r] # Done /\ req[s].holder = req[r].holder => req[r].holder \in mixed

\* The request r is over, or at its next call.
Goes(r) ==
    /\ req' \in [Requests -> Request] /\ \A s \in Requests \ {r} : req'[s] = req[s]
    /\ \/ req'[r] = Done
       \/ /\ Working(req'[r]) /\ req'[r].holder = req[r].holder
          /\ req'[r].closing = req[r].closing /\ req'[r].op = req[r].op
          /\ Head(req'[r].prog) # "edit"
          /\ Head(req'[r].prog) = "update" =>
               Head(req[r].prog) = IF req[r].op = None THEN "edit" ELSE "read"
          /\ Head(req'[r].prog) = "release" => Head(req[r].prog) \in {"check", "exit"}

LEMMA RequestFields ==
    ASSUME NEW q \in Request
    PROVE  /\ q.holder \in Holders \cup {None} /\ q.prog \in Seq(EngineCalls)
           /\ q.closing \in Seq(EngineCalls) /\ q.op \in Ops \cup {None} /\ q.view \in Configs
           /\ q.confirm \in BOOLEAN /\ q.enter \in {"config", "oper", None}
           /\ q.token \in Tokens \cup {None}
BY DEF Request

LEMMA QuitGoes ==
    ASSUME SessionsTypeOK, NEW r \in Requests, Quit(r)
    PROVE  Goes(r) /\ req'[r] = Done
BY DoneType DEF Goes, Quit, SessionsTypeOK

LEMMA ContinueGoes ==
    ASSUME SessionsTypeOK, NEW r \in Requests, Working(req[r]), Continue(r)
    PROVE  /\ Goes(r)
           /\ req[r].closing # <<>> /\ Head(req[r].prog) # "release" => req'[r] # Done
<1> DEFINE q == req[r]
           t == [q EXCEPT !.prog = Tail(@)]
<1>1. q \in Request /\ q.prog \in Seq(EngineCalls) /\ q.prog # <<>> /\ Shape(q.prog, q.closing, q.op)
    BY RequestFields DEF SessionsTypeOK, Working
<1>2. req' = [req EXCEPT ![r] = IF Len(q.prog) = 1 THEN Done ELSE t]
    BY DEF Continue
<1>3. CASE Len(q.prog) = 1
    <2>1. Quit(r)
        BY <1>2, <1>3 DEF Quit
    <2>2. q.closing # <<>> => Head(q.prog) = "release"
        BY <1>1, <1>3, TailShape
    <2> QED
        BY <2>1, <2>2, QuitGoes
<1>4. CASE Len(q.prog) # 1
    <2>1. /\ Tail(q.prog) \in Seq(EngineCalls) /\ Tail(q.prog) # <<>>
          /\ Shape(Tail(q.prog), q.closing, q.op) /\ Head(Tail(q.prog)) # "edit"
          /\ Head(Tail(q.prog)) = "update" => Head(q.prog) = IF q.op = None THEN "edit" ELSE "read"
          /\ Head(Tail(q.prog)) = "release" => Head(q.prog) \in {"check", "exit"}
        BY <1>1, <1>4, TailShape
    <2> HIDE DEF q
    <2>2. /\ t \in Request /\ t.prog = Tail(q.prog) /\ t.holder = q.holder
          /\ t.closing = q.closing /\ t.op = q.op
        BY <1>1, <2>1 DEF Request
    <2>3. q.holder \in Holders
        BY DEF Working, q
    <2> HIDE DEF t
    <2>4. req'[r] = t /\ \A s \in Requests \ {r} : req'[s] = req[s]
        BY <1>2, <1>4 DEF SessionsTypeOK, q
    <2>5. req' \in [Requests -> Request]
        BY <1>2, <1>4, <2>2 DEF SessionsTypeOK, q
    <2>6. t # Done
        BY <2>1, <2>2, DoneType
    <2>7. Working(t)
        BY <2>1, <2>2, <2>3 DEF Working
    <2> QED
        BY <2>1, <2>2, <2>4, <2>5, <2>6, <2>7 DEF Goes, q
<1> QED
    BY <1>3, <1>4

LEMMA FailGoes ==
    ASSUME SessionsTypeOK, NEW r \in Requests, Working(req[r]), Fail(r)
    PROVE  Goes(r) /\ (req[r].closing # <<>> => req'[r] # Done)
<1> DEFINE q == req[r]
           t == [q EXCEPT !.prog = q.closing]
<1>1. q \in Request /\ q.prog # <<>> /\ Shape(q.prog, q.closing, q.op) /\ q.holder \in Holders
    BY DEF SessionsTypeOK, Working
<1>2. CASE q.closing = <<>>
    BY <1>2, QuitGoes DEF Fail
<1>3. CASE q.closing # <<>>
    <2>1. q.closing = <<"check", "release">>
        BY <1>1, <1>3 DEF Shape
    <2>2. Shape(<<"check", "release">>, <<"check", "release">>, q.op)
        BY DEF Shape
    <2>3. q.closing \in Seq(EngineCalls) /\ Head(q.closing) = "check"
        <3>1. q.closing \in Seq(EngineCalls)
            BY <1>1, RequestFields
        <3> QED
            BY <2>1, <3>1
    <2>4. req' = [req EXCEPT ![r] = t]
        BY <1>3 DEF Fail, SessionsTypeOK
    <2> HIDE DEF q
    <2>5. t \in Request /\ t.prog = q.closing /\ t.holder = q.holder
          /\ t.closing = q.closing /\ t.op = q.op
        BY <1>1, <2>3 DEF Request
    <2> HIDE DEF t
    <2>6. req'[r] = t /\ (\A s \in Requests \ {r} : req'[s] = req[s])
          /\ req' \in [Requests -> Request]
        BY <2>4, <2>5 DEF SessionsTypeOK
    <2>7. Working(t) /\ t # Done
        BY <1>1, <1>3, <2>1, <2>2, <2>5, DoneType DEF Working
    <2> QED
        BY <1>3, <2>3, <2>5, <2>6, <2>7 DEF Goes, q
<1> QED
    BY <1>2, <1>3

\* Candidate, and the change on what it returned.
LEMMA ReadGoes ==
    ASSUME SessionsTypeOK, NEW r \in Requests, Working(req[r]), At(r, "read"), NEW view \in Configs,
           req' = [req EXCEPT ![r].prog = Tail(@), ![r].view = view]
    PROVE  Goes(r) /\ req'[r] # Done /\ req'[r].view = view
<1> DEFINE q == req[r]
           u == [q EXCEPT !.prog = Tail(q.prog)]
           t == [u EXCEPT !.view = view]
<1>1. /\ q \in Request /\ q.prog \in Seq(EngineCalls) /\ q.prog # <<>> /\ Head(q.prog) = "read"
      /\ Shape(q.prog, q.closing, q.op) /\ q.holder \in Holders
    BY RequestFields DEF SessionsTypeOK, Working, At
<1>2. /\ Tail(q.prog) \in Seq(EngineCalls) /\ Tail(q.prog) # <<>>
      /\ Shape(Tail(q.prog), q.closing, q.op) /\ Head(Tail(q.prog)) # "edit"
      /\ Head(Tail(q.prog)) = "update" => Head(q.prog) = IF q.op = None THEN "edit" ELSE "read"
      /\ Head(Tail(q.prog)) = "release" => Head(q.prog) \in {"check", "exit"}
    BY <1>1, TailShape
<1>3. req' = [req EXCEPT ![r] = t]
    BY DEF SessionsTypeOK
<1> HIDE DEF q
<1>4. /\ u \in Request /\ u.prog = Tail(q.prog) /\ u.holder = q.holder
      /\ u.closing = q.closing /\ u.op = q.op
    BY <1>1, <1>2 DEF Request
<1> HIDE DEF u
<1>5. /\ t \in Request /\ t.prog = Tail(q.prog) /\ t.holder = q.holder
      /\ t.closing = q.closing /\ t.op = q.op /\ t.view = view
    BY <1>4 DEF Request
<1> HIDE DEF t
<1>6. req'[r] = t /\ (\A s \in Requests \ {r} : req'[s] = req[s]) /\ req' \in [Requests -> Request]
    BY <1>3, <1>5 DEF SessionsTypeOK
<1>7. Working(t) /\ t # Done
    BY <1>1, <1>2, <1>5, DoneType DEF Working
<1> QED
    BY <1>2, <1>5, <1>6, <1>7 DEF Goes, q

\* A request at a call works, and has a change to make where it reads or merges.
LEMMA AtWorks ==
    ASSUME SessionsTypeOK, RequestInv, NEW r \in Requests, NEW call, At(r, call)
    PROVE  /\ Working(req[r]) /\ req[r] # Done /\ Head(req[r].prog) = call
           /\ req[r] \in Request /\ req[r].holder \in Holders
           /\ call \in {"read", "merge"} => req[r].op \in Ops
<1>1. Working(req[r])
    BY DoneType DEF RequestInv, At
<1>2. req[r] \in Request /\ req[r].prog \in Seq(EngineCalls) /\ req[r].prog # <<>>
    BY <1>1, RequestFields DEF SessionsTypeOK, Working
<1>3. req[r].prog[1] = call /\ Len(req[r].prog) >= 1 /\ Len(req[r].prog) \in Nat
    BY <1>2, HeadTailProperties, LenProperties DEF At
<1>4. call \in {"read", "merge"} => req[r].op # None
    BY <1>1, <1>3 DEF Working, Shape
<1> QED
    BY <1>1, <1>2, <1>4, DoneType, RequestFields DEF At, Working

LEMMA ChangedType ==
    ASSUME NEW op \in Ops, NEW c \in Configs
    PROVE  Changed(op, c) \in Configs
BY DEF Changed, Ops, Configs

LEMMA CallGoes ==
    ASSUME SessionsTypeOK, RequestInv, NEW r \in Requests, Call(r) \/ CommitCall(r)
    PROVE  Working(req[r]) /\ Goes(r) /\ mixed' = mixed
<1>1. PICK call : At(r, call)
    BY DEF Call, CommitCall, EditCall, ReadCall, UpdateCall, MergeCall, CheckCall, ReleaseCall,
           ExitCheckCall, DiscardCall, TokenCall, RollbackCall, ConfirmCall
<1>2. Working(req[r])
    BY <1>1, AtWorks
<1>3. mixed' = mixed
    BY DEF Call, CommitCall, EditCall, ReadCall, UpdateCall, MergeCall, CheckCall, ReleaseCall,
           ExitCheckCall, DiscardCall, TokenCall, RollbackCall, ConfirmCall, ghosts
<1>4. \/ Continue(r) \/ Quit(r) \/ Fail(r) \/ ReadCall(r)
    BY DEF Call, CommitCall, EditCall, UpdateCall, MergeCall, CheckCall, ReleaseCall,
           ExitCheckCall, DiscardCall, TokenCall, RollbackCall, ConfirmCall
<1>5. CASE ReadCall(r)
    <2>1. CASE Fail(r)
        BY <1>2, <1>3, <2>1, FailGoes
    <2>2. CASE cand # None /\ req' = [req EXCEPT ![r].prog = Tail(@),
                                                 ![r].view = Changed(req[r].op, cand)]
        <3>1. Changed(req[r].op, cand) \in Configs
            BY <1>5, <2>2, AtWorks, ChangedType DEF ReadCall, SessionsTypeOK
        <3> QED
            BY <1>2, <1>3, <1>5, <2>2, <3>1, ReadGoes DEF ReadCall
    <2> QED
        BY <1>5, <2>1, <2>2 DEF ReadCall
<1> QED
    BY <1>2, <1>3, <1>4, <1>5, ContinueGoes, QuitGoes, FailGoes

LEMMA CallRequests ==
    ASSUME SessionsTypeOK, RequestInv, NEW r \in Requests, Call(r) \/ CommitCall(r)
    PROVE  RequestInv'
<1>1. Working(req[r]) /\ Goes(r) /\ mixed' = mixed
    BY CallGoes
<1>2. ASSUME NEW s \in Requests
      PROVE  req'[s] = Done \/ (Working(req'[s]) /\ req'[s].holder = req[s].holder /\ req[s] # Done)
    BY <1>1, <1>2, DoneType DEF Goes, RequestInv, Working
<1>3. ASSUME NEW s \in Requests, NEW o \in Requests \ {s}, req'[s] # Done,
             req'[o].holder = req'[s].holder
      PROVE  req'[s].holder \in mixed'
    <2>1. Working(req'[s]) /\ req'[s].holder = req[s].holder /\ req[s] # Done
        BY <1>2, <1>3
    <2>2. req'[s].holder \in Holders /\ req'[o] # Done
        BY <1>3, <2>1, DoneType, SessionsAssumption DEF Working
    <2> QED
        BY <1>1, <1>2, <1>3, <2>1, <2>2 DEF RequestInv
<1>4. \A s \in Requests : Working(req[s])' <=> Working(req'[s])
    BY DEF Working
<1> QED
    BY <1>2, <1>3, <1>4 DEF RequestInv

-----------------------------------------------------------------------------
(* The lock, the candidate and the edits *)

\* A candidate belongs to the one who holds the lock.
LockInv == (cand = None <=> holder = None) /\ (holder # None => lock = holder)

\* What EditsSurvive says of h; and where no edit was accepted, the candidate is
\* the committed configuration.
HolderInv(h) ==
    h \notin mixed =>
        /\ wish[h] # None => Editing(h) /\ dirty /\ cand = wish[h]
        /\ wish[h] = None /\ Editing(h) => cand = committed

\* What a request of the holder is about to write comes from the candidate as it is,
\* and what it is about to release is clean.
ViewInv(r) ==
    Editing(req[r].holder) /\ req[r].holder \notin mixed =>
        /\ At(r, "update") /\ req[r].op # None => req[r].view = Changed(req[r].op, cand)
        /\ At(r, "release") => ~dirty

\* A clean lock that no session keeps has a one-shot request that hands it back.
Returns(r) == /\ req[r].holder = holder /\ req[r].closing # <<>> /\ req[r].prog # <<>>
              /\ Head(req[r].prog) # "edit"
HandInv == holder # None /\ ~dirty /\ ~kept => \E r \in Requests : Returns(r)

SessionsInv ==
    /\ SessionsTypeOK /\ RequestInv /\ LockInv /\ HandInv
    /\ \A h \in Holders : HolderInv(h)
    /\ \A r \in Requests : ViewInv(r)

\* The types after a call.
LEMMA CallType ==
    ASSUME SessionsTypeOK, RequestInv, NEW r \in Requests, Call(r) \/ CommitCall(r)
    PROVE  SessionsTypeOK'
<1> DEFINE h == req[r].holder
<1>1. /\ h \in Holders /\ req' \in [Requests -> Request] /\ mixed' = mixed
      /\ req[r].op \in Ops \cup {None} /\ req[r].view \in Configs
      /\ req[r].closing \in Seq(EngineCalls)
    <2>1. req[r] \in Request
        BY DEF SessionsTypeOK
    <2> QED
        BY <2>1, CallGoes, RequestFields DEF Goes, Working
<1>2. \A op \in Ops : Changed(op, Base(h)) \in Configs
    <2>1. Base(h) \in Configs
        BY <1>1 DEF Base, SessionsTypeOK
    <2> QED
        BY <2>1, ChangedType
<1>3. cand # None => \A op \in Ops : Changed(op, cand) \in Configs
    BY ChangedType DEF SessionsTypeOK
<1>4. CASE EditCall(r)
    BY <1>1, <1>4 DEF EditCall, engineVars, SessionsTypeOK, accessVars
<1>5. CASE ReadCall(r) \/ CheckCall(r) \/ TokenCall(r)
    BY <1>1, <1>5 DEF ReadCall, CheckCall, TokenCall, engineVars, ghosts, SessionsTypeOK
<1>6. CASE UpdateCall(r)
    <2>1. wish' \in [Holders -> Configs \cup {None}] /\ cand' \in Configs \cup {None}
          /\ dirty' \in BOOLEAN
        BY <1>1, <1>2, <1>6 DEF UpdateCall, SessionsTypeOK
    <2> QED
        BY <1>1, <1>6, <2>1 DEF UpdateCall, SessionsTypeOK
<1>7. CASE MergeCall(r)
    <2>1. req[r].op \in Ops
        BY <1>7, AtWorks DEF MergeCall
    <2>2. wish' \in [Holders -> Configs \cup {None}] /\ cand' \in Configs \cup {None}
          /\ dirty' \in BOOLEAN
        BY <1>1, <1>2, <1>3, <1>7, <2>1 DEF MergeCall, SessionsTypeOK, Editing
    <2> QED
        BY <1>1, <1>7, <2>2 DEF MergeCall, SessionsTypeOK
<1>8. CASE CommitCall(r)
    <2>1. wish' \in [Holders -> Configs \cup {None}]
        BY <1>1, <1>8 DEF CommitCall, SessionsTypeOK
    <2>2. committed' \in Configs /\ pending' \in Configs \cup {None}
          /\ older' \in Configs \cup {None} /\ dirty' \in BOOLEAN
        BY <1>1, <1>8 DEF CommitCall, SessionsTypeOK, Editing
    <2>3. kept' \in BOOLEAN /\ mode' \subseteq Holders /\ UNCHANGED <<lock, holder, cand>>
        BY <1>1, <1>8 DEF CommitCall, SessionsTypeOK
    <2> QED
        BY <1>1, <2>1, <2>2, <2>3 DEF SessionsTypeOK
<1>9. CASE ReleaseCall(r)
    BY <1>1, <1>9 DEF ReleaseCall, ReleaseLocked, engineVars, SessionsTypeOK
<1>10. CASE ExitCheckCall(r)
    BY <1>1, <1>10 DEF ExitCheckCall, engineVars, ghosts, SessionsTypeOK
<1>11. CASE DiscardCall(r)
    <2>1. wish' \in [Holders -> Configs \cup {None}]
        BY <1>1, <1>11 DEF DiscardCall, SessionsTypeOK
    <2> QED
        BY <1>1, <1>11, <2>1 DEF DiscardCall, ReleaseLocked, engineVars, SessionsTypeOK
<1>12. CASE RollbackCall(r)
    <2>1. wish' \in [Holders -> Configs \cup {None}]
        BY <1>1, <1>12 DEF RollbackCall, SessionsTypeOK
    <2> QED
        BY <1>1, <1>12, <2>1 DEF RollbackCall, SessionsTypeOK
<1>13. CASE ConfirmCall(r)
    BY <1>1, <1>13 DEF ConfirmCall, ghosts, SessionsTypeOK
<1> QED
    BY <1>4, <1>5, <1>6, <1>7, <1>8, <1>9, <1>10, <1>11, <1>12, <1>13 DEF Call

LEMMA CallLock ==
    ASSUME SessionsInv, NEW r \in Requests, Call(r) \/ CommitCall(r)
    PROVE  LockInv'
<1>1. req[r].holder \in Holders /\ req[r].holder # None
    BY CallGoes, SessionsAssumption DEF SessionsInv, Working
<1>2. committed # None /\ req[r].view # None /\ (older # None => older \in Configs)
    <2>1. req[r] \in Request /\ committed \in Configs
        BY DEF SessionsInv, SessionsTypeOK
    <2> QED
        BY <2>1, SessionsAssumption, RequestFields DEF SessionsInv, SessionsTypeOK
<1>3. CASE UpdateCall(r)
    BY <1>1, <1>2, <1>3 DEF UpdateCall, Editing, SessionsInv, LockInv
<1>4. CASE MergeCall(r)
    <2>1. cand # None => Changed(req[r].op, cand) # None
        BY <1>4, AtWorks, ChangedType, SessionsAssumption DEF MergeCall, SessionsInv, SessionsTypeOK
    <2> QED
        BY <1>1, <1>4, <2>1 DEF MergeCall, Editing, SessionsInv, LockInv
<1>5. CASE RollbackCall(r)
    BY <1>1, <1>2, <1>5 DEF RollbackCall, Editing, SessionsInv, LockInv
<1>6. CASE EditCall(r)
    BY <1>1, <1>2, <1>6 DEF EditCall, engineVars, SessionsInv, LockInv
<1>7. CASE ReleaseCall(r) \/ DiscardCall(r)
    BY <1>7 DEF ReleaseCall, DiscardCall, ReleaseLocked, engineVars, SessionsInv, LockInv
<1>8. CASE \/ ReadCall(r) \/ CheckCall(r) \/ ExitCheckCall(r) \/ TokenCall(r) \/ ConfirmCall(r)
           \/ CommitCall(r)
    <2>1. UNCHANGED <<lock, holder, cand>>
        BY <1>8 DEF ReadCall, CheckCall, ExitCheckCall, TokenCall, ConfirmCall, CommitCall, engineVars
    <2> QED
        BY <2>1 DEF SessionsInv, LockInv
<1> QED
    BY <1>3, <1>4, <1>5, <1>6, <1>7, <1>8 DEF Call

\* A call of r leaves what other holders edit alone.
LEMMA OthersKept ==
    ASSUME SessionsInv, NEW r \in Requests, Call(r) \/ CommitCall(r),
           NEW h \in Holders \ {req[r].holder}
    PROVE  /\ wish'[h] = wish[h] /\ (Editing(h)' => Editing(h))
           /\ Editing(h) => Editing(h)' /\ UNCHANGED <<cand, dirty, committed>>
<1>1. req[r].holder \in Holders /\ wish \in [Holders -> Configs \cup {None}]
    BY CallGoes DEF SessionsInv, Working, SessionsTypeOK
<1>2. wish'[h] = wish[h]
    BY <1>1 DEF Call, EditCall, ReadCall, UpdateCall, MergeCall, CheckCall, ReleaseCall, ExitCheckCall,
                DiscardCall, TokenCall, RollbackCall, ConfirmCall, CommitCall, ghosts
<1>3. CASE EditCall(r)
    BY <1>2, <1>3 DEF EditCall, engineVars, Editing, SessionsInv, LockInv
<1>4. CASE ReleaseCall(r) \/ DiscardCall(r)
    BY <1>2, <1>4 DEF ReleaseCall, DiscardCall, ReleaseLocked, engineVars, Editing
<1>5. CASE UpdateCall(r) \/ MergeCall(r) \/ RollbackCall(r)
    BY <1>2, <1>5 DEF UpdateCall, MergeCall, RollbackCall, Editing
<1>6. CASE CommitCall(r)
    BY <1>2, <1>6 DEF CommitCall, Editing
<1>7. CASE ReadCall(r) \/ CheckCall(r) \/ ExitCheckCall(r) \/ TokenCall(r) \/ ConfirmCall(r)
    BY <1>2, <1>7 DEF ReadCall, CheckCall, ExitCheckCall, TokenCall, ConfirmCall, engineVars, Editing
<1> QED
    BY <1>3, <1>4, <1>5, <1>6, <1>7 DEF Call

\* A call of r and the edits of its own holder.
LEMMA OwnKept ==
    ASSUME SessionsInv, NEW r \in Requests, Call(r) \/ CommitCall(r),
           NEW h \in Holders, h = req[r].holder
    PROVE  HolderInv(h)'
<1>1. /\ h # None /\ wish \in [Holders -> Configs \cup {None}] /\ mixed' = mixed
      /\ HolderInv(h) /\ LockInv /\ ViewInv(r)
    BY CallGoes, SessionsAssumption DEF SessionsInv, SessionsTypeOK
<1>2. CASE h \in mixed
    BY <1>1, <1>2 DEF HolderInv
<1>3. CASE h \notin mixed
    <2>1. SUFFICES /\ wish'[h] # None => Editing(h)' /\ dirty' /\ cand' = wish'[h]
                   /\ wish'[h] = None /\ Editing(h)' => cand' = committed'
        BY DEF HolderInv
    <2>2. /\ wish[h] # None => Editing(h) /\ dirty /\ cand = wish[h]
          /\ wish[h] = None /\ Editing(h) => cand = committed
        BY <1>1, <1>3 DEF HolderInv
    <2>3. /\ Editing(h) /\ At(r, "update") /\ req[r].op # None => req[r].view = Changed(req[r].op, cand)
          /\ Editing(h) /\ At(r, "release") => ~dirty
        BY <1>1, <1>3 DEF ViewInv
    <2>4. Editing(h) => Base(h) = cand
        BY <2>2 DEF Base
    <2>5. CASE EditCall(r)
        <3>1. CASE lock \notin {None, h}
            BY <2>2, <2>5, <3>1 DEF EditCall, engineVars, Editing
        <3>2. CASE lock \in {None, h} /\ (lock = None \/ cand = None)
            <4>1. cand = None
                BY <1>1, <3>2 DEF LockInv
            <4>2. wish[h] = None /\ wish' = wish /\ cand' = committed /\ committed' = committed
                BY <2>2, <2>5, <3>2, <4>1 DEF EditCall, Editing
            <4> QED
                BY <4>2
        <3>3. CASE lock \in {None, h} /\ ~(lock = None \/ cand = None)
            BY <2>2, <2>5, <3>3 DEF EditCall, Editing
        <3> QED
            BY <3>1, <3>2, <3>3
    <2>6. CASE ReadCall(r) \/ CheckCall(r) \/ ExitCheckCall(r) \/ TokenCall(r) \/ ConfirmCall(r)
        <3>1. UNCHANGED <<wish, cand, holder, dirty, committed>>
            BY <2>6 DEF ReadCall, CheckCall, ExitCheckCall, TokenCall, ConfirmCall, engineVars, ghosts
        <3> QED
            BY <2>2, <3>1 DEF Editing
    <2>7. CASE UpdateCall(r)
        <3>1. CASE ~Editing(h)
            BY <2>2, <2>7, <3>1 DEF UpdateCall, Editing
        <3>2. CASE Editing(h)
            <4>1. req[r].view \in Configs /\ req[r].view # None
                <5>1. req[r] \in Request
                    BY DEF SessionsInv, SessionsTypeOK
                <5> QED
                    BY <5>1, RequestFields, SessionsAssumption
            <4>2. cand' = req[r].view /\ dirty' = TRUE /\ holder' = holder /\ wish'[h] = req[r].view
                BY <1>1, <2>3, <2>4, <2>7, <3>2 DEF UpdateCall
            <4> QED
                BY <3>2, <4>1, <4>2 DEF Editing
        <3> QED
            BY <3>1, <3>2
    <2>8. CASE MergeCall(r)
        <3>1. CASE ~Editing(h)
            BY <2>2, <2>8, <3>1 DEF MergeCall, Editing
        <3>2. CASE Editing(h)
            <4>1. Changed(req[r].op, cand) # None
                BY <2>8, <3>2, AtWorks, ChangedType, SessionsAssumption
                   DEF MergeCall, Editing, SessionsInv, SessionsTypeOK
            <4>2. /\ cand' = Changed(req[r].op, cand) /\ dirty' = TRUE /\ holder' = holder
                  /\ wish'[h] = Changed(req[r].op, cand)
                BY <1>1, <2>4, <2>8, <3>2 DEF MergeCall
            <4> QED
                BY <3>2, <4>1, <4>2 DEF Editing
        <3> QED
            BY <3>1, <3>2
    <2>9. CASE CommitCall(r)
        <3>1. UNCHANGED <<cand, holder>>
            BY <2>9 DEF CommitCall
        <3>2. CASE UNCHANGED <<dirty, committed, wish>>
            BY <2>2, <3>1, <3>2 DEF Editing
        <3>3. CASE committed' = cand /\ wish' = [wish EXCEPT ![h] = None]
            BY <1>1, <3>1, <3>3
        <3> QED
            BY <2>9, <3>2, <3>3 DEF CommitCall
    <2>10. CASE ReleaseCall(r)
        <3>1. CASE Editing(h)
            <4>1. wish[h] = None /\ wish' = wish /\ cand' = None
                BY <2>2, <2>3, <2>10, <3>1 DEF ReleaseCall, ReleaseLocked
            <4> QED
                BY <4>1 DEF Editing
        <3>2. CASE ~Editing(h)
            BY <2>2, <2>10, <3>2 DEF ReleaseCall, engineVars, Editing
        <3> QED
            BY <3>1, <3>2
    <2>11. CASE DiscardCall(r)
        <3>1. CASE Editing(h)
            <4>1. wish'[h] = None /\ cand' = None
                BY <1>1, <2>11, <3>1 DEF DiscardCall, ReleaseLocked
            <4> QED
                BY <4>1 DEF Editing
        <3>2. CASE ~Editing(h)
            BY <2>2, <2>11, <3>2 DEF DiscardCall, engineVars, Editing
        <3> QED
            BY <3>1, <3>2
    <2>12. CASE RollbackCall(r)
        <3>1. CASE Editing(h) /\ older # None
            BY <1>1, <2>12, <3>1 DEF RollbackCall, Editing, SessionsInv, LockInv
        <3>2. CASE ~(Editing(h) /\ older # None)
            BY <2>2, <2>12, <3>2 DEF RollbackCall, Editing
        <3> QED
            BY <3>1, <3>2
    <2> QED
        BY <2>5, <2>6, <2>7, <2>8, <2>9, <2>10, <2>11, <2>12 DEF Call
<1> QED
    BY <1>2, <1>3

LEMMA CallHolders ==
    ASSUME SessionsInv, NEW r \in Requests, Call(r) \/ CommitCall(r)
    PROVE  \A h \in Holders : HolderInv(h)'
<1>1. ASSUME NEW h \in Holders \ {req[r].holder} PROVE HolderInv(h)'
    <2>1. /\ wish'[h] = wish[h] /\ (Editing(h)' => Editing(h))
          /\ Editing(h) => Editing(h)' /\ UNCHANGED <<cand, dirty, committed>>
        BY OthersKept
    <2>2. mixed' = mixed /\ HolderInv(h)
        BY CallGoes DEF SessionsInv
    <2> QED
        BY <2>1, <2>2 DEF HolderInv
<1> QED
    BY <1>1, OwnKept

\* A call of r and the requests under way.
LEMMA CallViews ==
    ASSUME SessionsInv, NEW r \in Requests, Call(r) \/ CommitCall(r)
    PROVE  \A s \in Requests : ViewInv(s)'
<1>1. /\ SessionsTypeOK /\ RequestInv /\ LockInv /\ Working(req[r]) /\ Goes(r) /\ mixed' = mixed
      /\ req[r].holder \in Holders
    BY CallGoes DEF SessionsInv, Working
<1>2. ASSUME NEW s \in Requests \ {r} PROVE ViewInv(s)'
    <2>1. req'[s] = req[s] /\ ViewInv(s)
        BY <1>1 DEF Goes, SessionsInv
    <2>2. CASE req[s] = Done
        BY <2>1, <2>2, DoneType DEF ViewInv, At
    <2>3. CASE req[s] # Done /\ req[s].holder = req[r].holder
        <3>1. req[s].holder \in mixed
            BY <1>1, <2>3 DEF RequestInv
        <3> QED
            BY <1>1, <2>1, <3>1 DEF ViewInv
    <2>4. CASE req[s] # Done /\ req[s].holder # req[r].holder
        <3>1. PICK h \in Holders \ {req[r].holder} : h = req[s].holder
            BY <1>1, <2>4 DEF RequestInv, Working
        <3>2. /\ Editing(h)' => Editing(h)
              /\ Editing(h) => UNCHANGED <<cand, dirty>>
            BY <3>1, OthersKept
        <3>3. Editing(req[s].holder)' <=> Editing(h)'
            BY <2>1, <3>1 DEF Editing
        <3> QED
            BY <1>1, <2>1, <3>1, <3>2, <3>3 DEF ViewInv, At, Editing
    <2> QED
        BY <2>2, <2>3, <2>4
<1>3. ViewInv(r)'
    <2>1. CASE req'[r] = Done
        BY <2>1, DoneType DEF ViewInv, At
    <2>2. CASE req'[r] # Done
        <3>0. PICK h \in Holders : h = req[r].holder
            BY <1>1
        <3>1. /\ req'[r].holder = h /\ req'[r].op = req[r].op /\ Head(req'[r].prog) # "edit"
              /\ Head(req'[r].prog) = "update" =>
                   Head(req[r].prog) = IF req[r].op = None THEN "edit" ELSE "read"
              /\ Head(req'[r].prog) = "release" => Head(req[r].prog) \in {"check", "exit"}
            BY <1>1, <2>2, <3>0 DEF Goes
        <3>2. ASSUME At(r, "update")', req'[r].op # None, Editing(h)'
              PROVE  req'[r].view = Changed(req'[r].op, cand')
            <4>1. At(r, "read")
                BY <1>1, <3>1, <3>2 DEF At, Working
            <4>2. ReadCall(r)
                BY <4>1 DEF Call, CommitCall, EditCall, UpdateCall, MergeCall, CheckCall, ReleaseCall,
                            ExitCheckCall, DiscardCall, TokenCall, RollbackCall, ConfirmCall, At
            <4>3. cand' = cand
                BY <4>2 DEF ReadCall, engineVars
            <4>4. CASE Fail(r)
                <5>1. req[r].closing # <<>>
                    BY <2>2, <4>4, QuitGoes, <1>1 DEF Fail
                <5>2. req[r].closing = <<"check", "release">>
                    BY <1>1, <5>1 DEF Working, Shape
                <5>3. req' = [req EXCEPT ![r].prog = req[r].closing]
                    BY <4>4, <5>1 DEF Fail
                <5>4. req[r] \in Request /\ req \in [Requests -> Request]
                    BY <1>1 DEF SessionsTypeOK
                <5>5. req'[r].prog = <<"check", "release">>
                    BY <5>2, <5>3, <5>4 DEF Request
                <5>6. Head(req'[r].prog) = "check"
                    BY <5>5
                <5> QED
                    BY <3>2, <5>6 DEF At
            <4>5. CASE /\ cand # None
                       /\ req' = [req EXCEPT ![r].prog = Tail(@), ![r].view = Changed(req[r].op, cand)]
                <5>1. Changed(req[r].op, cand) \in Configs
                    BY <1>1, <4>1, <4>5, AtWorks, ChangedType DEF SessionsTypeOK
                <5>2. req'[r].view = Changed(req[r].op, cand)
                    BY <1>1, <4>1, <4>5, <5>1, ReadGoes
                <5> QED
                    BY <3>1, <4>3, <5>2
            <4> QED
                BY <4>2, <4>4, <4>5 DEF ReadCall
        <3>3. ASSUME At(r, "release")', Editing(h)', h \notin mixed PROVE ~dirty'
            <4>1. At(r, "check") \/ At(r, "exit")
                BY <1>1, <3>1, <3>3 DEF At, Working
            <4>2. CheckCall(r) \/ ExitCheckCall(r)
                BY <4>1 DEF Call, CommitCall, EditCall, ReadCall, UpdateCall, MergeCall, ReleaseCall,
                            DiscardCall, TokenCall, RollbackCall, ConfirmCall, At
            <4>3. ~Quit(r)
                BY <1>1, <2>2, QuitGoes
            <4> QED
                BY <3>3, <4>2, <4>3 DEF CheckCall, ExitCheckCall, engineVars, Editing
        <3> QED
            BY <1>1, <3>1, <3>2, <3>3 DEF ViewInv, Editing, At
    <2> QED
        BY <2>1, <2>2
<1> QED
    BY <1>2, <1>3

\* A call of r and the lock that is to be handed back.
LEMMA CallHand ==
    ASSUME SessionsInv, NEW r \in Requests, Call(r) \/ CommitCall(r)
    PROVE  HandInv'
<1>1. /\ SessionsTypeOK /\ RequestInv /\ LockInv /\ Working(req[r]) /\ Goes(r) /\ HandInv
    BY CallGoes DEF SessionsInv
<1> SUFFICES ASSUME holder' # None, ~dirty', ~kept' PROVE \E s \in Requests : Returns(s)'
    BY DEF HandInv
\* a request that goes on, and is to return the lock, still is
<1>2. ASSUME holder' = holder, NEW s \in Requests, Returns(s), s = r => req'[r] # Done
      PROVE  Returns(s)'
    <2>1. CASE s = r
        BY <1>1, <1>2, <2>1 DEF Goes, Returns, Working
    <2>2. CASE s # r
        BY <1>1, <1>2, <2>2 DEF Goes, Returns
    <2> QED
        BY <2>1, <2>2
<1>3. ASSUME holder' = holder, ~dirty, ~kept, Returns(r) => req'[r] # Done
      PROVE  \E s \in Requests : Returns(s)'
    BY <1>1, <1>2, <1>3 DEF HandInv
<1>4. ASSUME Continue(r), Head(req[r].prog) # "release", Returns(r) PROVE req'[r] # Done
    BY <1>1, <1>4, ContinueGoes DEF Returns
<1>5. ASSUME Fail(r), Returns(r) PROVE req'[r] # Done
    BY <1>1, <1>5, FailGoes DEF Returns
<1>6. CASE EditCall(r)
    <2>1. ~Returns(r)
        BY <1>6 DEF EditCall, At, Returns
    <2>2. CASE lock \notin {None, req[r].holder}
        BY <1>3, <1>6, <2>1, <2>2 DEF EditCall, engineVars
    <2>3. CASE lock \in {None, req[r].holder} /\ ~(lock = None \/ cand = None)
        BY <1>3, <1>6, <2>1, <2>3 DEF EditCall
    <2>4. CASE lock \in {None, req[r].holder} /\ (lock = None \/ cand = None)
        <3>1. holder' = req[r].holder /\ req[r].closing # <<>> /\ Continue(r)
            BY <1>6, <2>4 DEF EditCall
        <3>2. req'[r] # Done
            BY <1>1, <1>6, <3>1, ContinueGoes DEF EditCall, At
        <3> QED
            BY <1>1, <3>1, <3>2 DEF Goes, Returns, Working
    <2> QED
        BY <2>2, <2>3, <2>4
<1>7. CASE ReadCall(r)
    <2>1. UNCHANGED <<holder, dirty, kept>>
        BY <1>7 DEF ReadCall, engineVars, ghosts
    <2>2. Returns(r) => req'[r] # Done
        <3>1. CASE Fail(r)
            BY <1>5, <3>1
        <3>2. CASE /\ cand # None
                   /\ req' = [req EXCEPT ![r].prog = Tail(@), ![r].view = Changed(req[r].op, cand)]
            <4>1. Changed(req[r].op, cand) \in Configs
                BY <1>1, <1>7, <3>2, AtWorks, ChangedType DEF ReadCall, SessionsTypeOK
            <4> QED
                BY <1>1, <1>7, <3>2, <4>1, ReadGoes DEF ReadCall
        <3> QED
            BY <1>7, <3>1, <3>2 DEF ReadCall
    <2> QED
        BY <1>3, <2>1, <2>2
<1>8. CASE UpdateCall(r) \/ MergeCall(r)
    <2>1. Fail(r) /\ UNCHANGED <<holder, dirty, kept>>
        BY <1>8 DEF UpdateCall, MergeCall
    <2> QED
        BY <1>3, <1>5, <2>1
<1>9. CASE RollbackCall(r)
    <2>1. Fail(r) /\ UNCHANGED <<holder, dirty, kept>>
        BY <1>9 DEF RollbackCall
    <2> QED
        BY <1>3, <1>5, <2>1
<1>10. CASE CommitCall(r)
    <2>1. holder' = holder /\ ~kept /\ Head(req[r].prog) = "commit"
        BY <1>10 DEF CommitCall, At
    <2>2. Continue(r) \/ Fail(r)
        BY <1>10 DEF CommitCall
    <2>3. CASE ~dirty
        BY <1>3, <1>4, <1>5, <2>1, <2>2, <2>3
    <2>4. CASE dirty
        <3>1. Editing(req[r].holder) /\ Continue(r)
            BY <1>10, <2>4 DEF CommitCall
        <3>2. req[r].closing # <<>>
            BY <1>10, <3>1 DEF CommitCall
        <3>3. Returns(r)
            BY <1>1, <2>1, <3>1, <3>2 DEF Returns, Editing, Working
        <3> QED
            BY <1>2, <1>4, <2>1, <3>1, <3>3
    <2> QED
        BY <2>3, <2>4
<1>11. CASE CheckCall(r)
    <2>1. UNCHANGED <<holder, cand, dirty, kept>> /\ Head(req[r].prog) = "check"
        BY <1>11 DEF CheckCall, engineVars, ghosts, At
    <2>2. cand # None
        BY <1>1, <2>1 DEF LockInv
    <2>3. Continue(r)
        BY <1>11, <2>1, <2>2 DEF CheckCall
    <2> QED
        BY <1>3, <1>4, <2>1, <2>3
<1>12. CASE ReleaseCall(r)
    <2>1. CASE Editing(req[r].holder)
        BY <1>12, <2>1 DEF ReleaseCall, ReleaseLocked
    <2>2. CASE ~Editing(req[r].holder)
        <3>1. UNCHANGED <<holder, cand, dirty, kept>>
            BY <1>12, <2>2 DEF ReleaseCall, engineVars
        <3>2. ~Returns(r)
            BY <1>1, <2>2, <3>1 DEF Returns, Editing, LockInv
        <3> QED
            BY <1>3, <3>1, <3>2
    <2> QED
        BY <2>1, <2>2
<1>13. CASE ExitCheckCall(r)
    <2>1. UNCHANGED <<holder, cand, dirty, kept>> /\ Head(req[r].prog) = "exit"
        BY <1>13 DEF ExitCheckCall, engineVars, ghosts, At
    <2>2. Continue(r)
        BY <1>13, <2>1 DEF ExitCheckCall
    <2> QED
        BY <1>3, <1>4, <2>1, <2>2
<1>14. CASE DiscardCall(r)
    <2>1. CASE Editing(req[r].holder)
        BY <1>14, <2>1 DEF DiscardCall, ReleaseLocked
    <2>2. CASE ~Editing(req[r].holder)
        BY <1>3, <1>4, <1>14, <2>2 DEF DiscardCall, engineVars, At
    <2> QED
        BY <2>1, <2>2
<1>15. CASE TokenCall(r)
    BY <1>3, <1>4, <1>15 DEF TokenCall, engineVars, ghosts, At
<1>16. CASE ConfirmCall(r)
    BY <1>3, <1>4, <1>16 DEF ConfirmCall, ghosts, At
<1> QED
    BY <1>6, <1>7, <1>8, <1>9, <1>10, <1>11, <1>12, <1>13, <1>14, <1>15, <1>16 DEF Call

-----------------------------------------------------------------------------
(* The other steps *)

\* A request arrives.
LEMMA BeginKeeps ==
    ASSUME SessionsInv, NEW r \in Requests, NEW h \in Holders, NEW q, Arriving(q), Begin(r, h, q)
    PROVE  SessionsInv'
<1>1. /\ SessionsTypeOK /\ RequestInv /\ LockInv /\ HandInv
      /\ \A k \in Holders : HolderInv(k)
      /\ \A s \in Requests : ViewInv(s)
      /\ h # None /\ req[r] = Done
    BY SessionsAssumption DEF SessionsInv, Begin
<1>2. PICK x \in Request : /\ req' = [req EXCEPT ![r] = x]
                           /\ Working(x) /\ x.holder = h /\ Head(x.prog) \notin {"update", "release"}
    <2>1. PICK t \in Tokens : req' = [req EXCEPT ![r] = [q EXCEPT !.holder = h, !.token = t]]
        BY DEF Begin
    <2> DEFINE a == [q EXCEPT !.holder = h]
               b == [a EXCEPT !.token = t]
    <2>2. [q EXCEPT !.holder = h, !.token = t] = b
        BY DEF Arriving, Request
    <2>3. /\ a \in Request /\ a.holder = h /\ a.prog = q.prog /\ a.closing = q.closing
          /\ a.op = q.op
        BY DEF Arriving, Request
    <2> HIDE DEF a
    <2>4. /\ b \in Request /\ b.holder = h /\ b.prog = q.prog /\ b.closing = q.closing
          /\ b.op = q.op
        BY <2>3 DEF Request
    <2> HIDE DEF b
    <2>5. Working(b) /\ Head(b.prog) \notin {"update", "release"}
        BY <2>4 DEF Working, Arriving
    <2> QED
        BY <2>1, <2>2, <2>4, <2>5
<1>3. /\ req' \in [Requests -> Request] /\ req'[r] = x
      /\ \A s \in Requests \ {r} : req'[s] = req[s]
    BY <1>1, <1>2 DEF SessionsTypeOK
<1>4. /\ UNCHANGED <<lock, holder, cand, dirty, committed, older, pending, mode, kept>>
      /\ mixed' = IF Busy(h) # {} THEN mixed \cup {h}
                  ELSE IF holder # h THEN mixed \ {h} ELSE mixed
      /\ wish' = IF Busy(h) = {} /\ holder # h /\ h \in mixed THEN [wish EXCEPT ![h] = None] ELSE wish
    BY DEF Begin, engineVars
<1>5. /\ \A k \in Holders \ {h} : (k \in mixed' <=> k \in mixed) /\ wish'[k] = wish[k]
      /\ Busy(h) # {} => h \in mixed'
      /\ h \in mixed /\ h \notin mixed' => Busy(h) = {} /\ holder # h /\ wish'[h] = None
      /\ h \notin mixed => wish'[h] = wish[h]
    BY <1>1, <1>4 DEF SessionsTypeOK
<1>6. SessionsTypeOK'
    BY <1>1, <1>3, <1>4 DEF SessionsTypeOK
<1>7. RequestInv'
    <2>1. ASSUME NEW s \in Requests
          PROVE  req'[s] = Done \/ Working(req'[s])
        BY <1>1, <1>2, <1>3 DEF RequestInv
    <2>2. ASSUME NEW s \in Requests, NEW o \in Requests \ {s}, req'[s] # Done,
                 req'[o].holder = req'[s].holder
          PROVE  req'[s].holder \in mixed'
        <3>1. CASE s = r
            BY <1>2, <1>3, <1>5, <2>2, <3>1 DEF Busy
        <3>2. CASE o = r
            BY <1>2, <1>3, <1>5, <2>2, <3>2 DEF Busy
        <3>3. CASE s # r /\ o # r
            <4>1. req[s].holder \in mixed /\ req[s].holder \in Holders
                BY <1>1, <1>3, <2>2, <3>3 DEF RequestInv, Working
            <4> QED
                BY <1>3, <1>5, <3>3, <4>1 DEF Busy
        <3> QED
            BY <3>1, <3>2, <3>3
    <2>3. \A s \in Requests : Working(req[s])' <=> Working(req'[s])
        BY DEF Working
    <2> QED
        BY <2>1, <2>2, <2>3 DEF RequestInv
<1>8. LockInv'
    BY <1>1, <1>4 DEF LockInv
<1>9. ASSUME NEW k \in Holders PROVE HolderInv(k)'
    <2>1. HolderInv(k)
        BY <1>1
    <2>2. CASE k # h
        BY <1>4, <1>5, <2>1, <2>2 DEF HolderInv, Editing
    <2>3. CASE k = h /\ h \in mixed
        BY <1>4, <1>5, <2>3 DEF HolderInv, Editing
    <2>4. CASE k = h /\ h \notin mixed
        BY <1>4, <1>5, <2>1, <2>4 DEF HolderInv, Editing
    <2> QED
        BY <2>2, <2>3, <2>4
<1>10. ASSUME NEW s \in Requests PROVE ViewInv(s)'
    <2>1. CASE s = r
        BY <1>2, <1>3, <2>1 DEF ViewInv, At
    <2>2. CASE s # r /\ req[s] = Done
        BY <1>3, <2>2, DoneType DEF ViewInv, At
    <2>3. CASE s # r /\ req[s] # Done
        <3>1. req[s].holder \in Holders /\ req'[s] = req[s] /\ ViewInv(s)
            BY <1>1, <1>3, <2>3 DEF RequestInv, Working
        <3>2. req[s].holder \notin mixed' => req[s].holder \notin mixed
            BY <1>5, <3>1 DEF Busy
        <3> QED
            BY <1>4, <3>1, <3>2 DEF ViewInv, At, Editing
    <2> QED
        BY <2>1, <2>2, <2>3
<1>11. HandInv'
    <2> SUFFICES ASSUME holder # None, ~dirty, ~kept PROVE \E s \in Requests : Returns(s)'
        BY <1>4 DEF HandInv
    <2>1. PICK s \in Requests : Returns(s)
        BY <1>1 DEF HandInv
    <2>2. s # r
        BY <1>1, <2>1, DoneType DEF Returns
    <2> QED
        BY <1>3, <1>4, <2>1, <2>2 DEF Returns
<1> QED
    BY <1>6, <1>7, <1>8, <1>9, <1>10, <1>11 DEF SessionsInv

\* The lock goes, by no request: the idle lock.
LEMMA IdleKeeps == SessionsInv /\ IdleTimeout => SessionsInv'
<1> SUFFICES ASSUME SessionsInv, IdleTimeout PROVE SessionsInv'
    OBVIOUS
<1>1. /\ SessionsTypeOK /\ RequestInv /\ LockInv
      /\ \A k \in Holders : HolderInv(k)
    BY DEF SessionsInv
<1>2. /\ lock' = None /\ cand' = None /\ holder' = None /\ dirty' = FALSE /\ kept' = FALSE
      /\ UNCHANGED <<committed, older, pending, mode, req, mixed>>
      /\ wish' = [wish EXCEPT ![holder] = None] /\ holder \in Holders
    BY <1>1 DEF IdleTimeout, ReleaseLocked, LockInv, SessionsTypeOK
<1>3. SessionsTypeOK'
    BY <1>1, <1>2 DEF SessionsTypeOK
<1>4. RequestInv'
    BY <1>1, <1>2 DEF RequestInv, Working
<1>5. LockInv' /\ HandInv'
    BY <1>2 DEF LockInv, HandInv
<1>6. ASSUME NEW k \in Holders PROVE HolderInv(k)'
    <2>1. HolderInv(k)
        BY <1>1
    <2>2. k \notin mixed => wish'[k] = None
        BY <1>1, <1>2, <2>1 DEF HolderInv, Editing, SessionsTypeOK
    <2> QED
        BY <1>2, <2>2 DEF HolderInv, Editing
<1>7. ASSUME NEW r \in Requests PROVE ViewInv(r)'
    BY <1>2 DEF ViewInv, Editing
<1> QED
    BY <1>3, <1>4, <1>5, <1>6, <1>7 DEF SessionsInv

\* The rollback of a commit that nobody confirmed.
LEMMA ConfirmedKeeps == SessionsInv /\ ConfirmedTimeout => SessionsInv'
<1> SUFFICES ASSUME SessionsInv, ConfirmedTimeout PROVE SessionsInv'
    OBVIOUS
<1>1. /\ SessionsTypeOK /\ RequestInv /\ LockInv /\ HandInv
      /\ \A k \in Holders : HolderInv(k)
      /\ \A r \in Requests : ViewInv(r)
    BY DEF SessionsInv
<1>2. /\ pending \in Configs /\ pending # None
      /\ committed' = pending /\ older' = committed /\ pending' = None
      /\ UNCHANGED <<lock, holder, mode, req, kept>>
    BY <1>1 DEF ConfirmedTimeout, SessionsTypeOK
<1>3. CASE cand = None
    <2>1. UNCHANGED <<cand, dirty, wish, mixed>>
        BY <1>3 DEF ConfirmedTimeout
    <2>2. SessionsTypeOK'
        BY <1>1, <1>2, <2>1 DEF SessionsTypeOK
    <2>3. RequestInv' /\ LockInv' /\ HandInv'
        BY <1>1, <1>2, <2>1 DEF RequestInv, Working, LockInv, HandInv, Returns
    <2>4. \A k \in Holders : HolderInv(k)'
        BY <1>1, <1>2, <1>3, <2>1 DEF HolderInv, Editing
    <2>5. \A r \in Requests : ViewInv(r)'
        BY <1>2, <1>3, <2>1 DEF ViewInv, Editing
    <2> QED
        BY <2>2, <2>3, <2>4, <2>5 DEF SessionsInv
<1>4. CASE cand # None
    <2>1. /\ cand' = pending /\ dirty' = TRUE /\ wish' = [wish EXCEPT ![holder] = pending]
          /\ mixed' = IF Busy(holder) # {} THEN mixed \cup {holder} ELSE mixed
          /\ holder \in Holders
        BY <1>1, <1>4 DEF ConfirmedTimeout, LockInv, SessionsTypeOK
    <2>2. SessionsTypeOK'
        BY <1>1, <1>2, <2>1 DEF SessionsTypeOK
    <2>3. RequestInv' /\ LockInv' /\ HandInv'
        BY <1>1, <1>2, <1>4, <2>1 DEF RequestInv, Working, LockInv, HandInv
    <2>4. ASSUME NEW k \in Holders PROVE HolderInv(k)'
        <3>1. CASE k = holder
            BY <1>1, <1>2, <2>1, <3>1 DEF HolderInv, Editing, SessionsTypeOK
        <3>2. CASE k # holder
            BY <1>1, <1>2, <2>1, <3>2 DEF HolderInv, Editing, SessionsTypeOK
        <3> QED
            BY <3>1, <3>2
    <2>5. ASSUME NEW r \in Requests PROVE ViewInv(r)'
        BY <1>2, <2>1 DEF ViewInv, Editing, Busy
    <2> QED
        BY <2>2, <2>3, <2>4, <2>5 DEF SessionsInv
<1> QED
    BY <1>3, <1>4

LEMMA RestartKeeps == SessionsInv /\ SessionsRestart => SessionsInv'
<1> SUFFICES ASSUME SessionsInv, SessionsRestart PROVE SessionsInv'
    OBVIOUS
<1>1. /\ cand' = None /\ holder' = None /\ dirty' = FALSE /\ mode' = {}
      /\ req' = [r \in Requests |-> Done] /\ kept' = FALSE
      /\ wish' = [h \in Holders |-> None] /\ mixed' = {}
      /\ UNCHANGED <<lock, committed, older, pending>>
    BY DEF SessionsRestart
<1>2. SessionsTypeOK'
    BY <1>1, DoneType DEF SessionsInv, SessionsTypeOK
<1>3. RequestInv' /\ LockInv' /\ HandInv'
    BY <1>1 DEF RequestInv, LockInv, HandInv
<1>4. \A h \in Holders : HolderInv(h)'
    BY <1>1 DEF HolderInv, Editing
<1>5. \A r \in Requests : ViewInv(r)'
    BY <1>1 DEF ViewInv, Editing
<1> QED
    BY <1>2, <1>3, <1>4, <1>5 DEF SessionsInv

\* The CLI session, or nothing of the sessions, changes.
LEMMA ModeKeeps ==
    ASSUME SessionsInv, UNCHANGED <<engineVars, req, ghosts>>, mode' \subseteq mode
    PROVE  SessionsInv'
<1>1. UNCHANGED <<lock, holder, cand, dirty, committed, older, pending, req, kept, wish, mixed>>
    BY DEF engineVars, ghosts
<1>2. SessionsTypeOK'
    BY <1>1 DEF SessionsInv, SessionsTypeOK
<1>3. RequestInv' /\ LockInv' /\ HandInv'
    BY <1>1 DEF SessionsInv, RequestInv, Working, LockInv, HandInv, Returns
<1>4. \A h \in Holders : HolderInv(h)'
    BY <1>1 DEF SessionsInv, HolderInv, Editing
<1>5. \A r \in Requests : ViewInv(r)'
    BY <1>1 DEF SessionsInv, ViewInv, Editing, At
<1> QED
    BY <1>2, <1>3, <1>4, <1>5 DEF SessionsInv

-----------------------------------------------------------------------------
(* The specification *)

SessionsNext ==
    \/ \E r \in Requests : Call(r) \/ CommitCall(r)
    \/ \E r \in Requests, u \in Users : Rest(r, u) \/ Cli(r, u)
    \/ IdleTimeout \/ ConfirmedTimeout \/ \E u \in Users : ForgetCli(u)
    \/ SessionsRestart
    \/ UNCHANGED sessionVars

LEMMA SessionsStep == SessionsInv /\ SessionsNext => SessionsInv'
<1> SUFFICES ASSUME SessionsInv, SessionsNext PROVE SessionsInv'
    OBVIOUS
<1>1. ASSUME NEW r \in Requests, Call(r) \/ CommitCall(r) PROVE SessionsInv'
    <2>1. SessionsTypeOK' /\ RequestInv'
        BY <1>1, CallType, CallRequests DEF SessionsInv
    <2>2. LockInv' /\ HandInv'
        BY <1>1, CallLock, CallHand
    <2>3. (\A h \in Holders : HolderInv(h)') /\ \A s \in Requests : ViewInv(s)'
        BY <1>1, CallHolders, CallViews
    <2> QED
        BY <2>1, <2>2, <2>3 DEF SessionsInv
<1>2. ASSUME NEW r \in Requests, NEW u \in Users, Rest(r, u) \/ Cli(r, u) PROVE SessionsInv'
    <2>1. <<u, "api">> \in Holders /\ <<u, "ssh">> \in Holders
        BY DEF Holders
    <2>2. CASE Rest(r, u)
        <3>1. PICK q \in RestRequests : Begin(r, <<u, "api">>, q)
            BY <2>2 DEF Rest
        <3>2. Arriving(q)
            BY <3>1, ArrivingRequests
        <3> QED
            BY <2>1, <3>1, <3>2, BeginKeeps
    <2>3. CASE Cli(r, u)
        <3>1. PICK q \in CliRequests(<<u, "ssh">>) : Begin(r, <<u, "ssh">>, q)
            BY <2>3 DEF Cli
        <3>2. Arriving(q)
            BY <3>1, ArrivingRequests
        <3> QED
            BY <2>1, <3>1, <3>2, BeginKeeps
    <2> QED
        BY <1>2, <2>2, <2>3
<1>3. ASSUME NEW u \in Users, ForgetCli(u) PROVE SessionsInv'
    BY <1>3, ModeKeeps DEF ForgetCli
<1>4. ASSUME UNCHANGED sessionVars PROVE SessionsInv'
    BY <1>4, ModeKeeps DEF sessionVars
<1> QED
    BY <1>1, <1>2, <1>3, <1>4, IdleKeeps, ConfirmedKeeps, RestartKeeps DEF SessionsNext

\* Each step of the API is one of the logins and one of the sessions, or of neither.
LEMMA ApiStep == SessionsInv /\ [Next]_vars => AccessNext /\ SessionsNext
<1> SUFFICES ASSUME SessionsInv, [Next]_vars PROVE AccessNext /\ SessionsNext
    OBVIOUS
<1>1. CASE LoginAttempt
    BY <1>1 DEF LoginAttempt, AccessNext, SessionsNext
<1>2. CASE TimePasses
    BY <1>2 DEF TimePasses, AccessNext, SessionsNext
<1>3. CASE NewRequest
    <2>1. PICK r \in Requests, u \in Users : Rest(r, u) \/ Cli(r, u)
        BY <1>3 DEF NewRequest
    <2>2. PICK h \in {<<u, "api">>, <<u, "ssh">>} : \E q : Begin(r, h, q)
        BY <2>1 DEF Rest, Cli
    <2>3. \E t \in Tokens : Verified(t, u)
        BY <2>2 DEF Begin
    <2> QED
        BY <2>1, <2>3 DEF AccessNext, SessionsNext
<1>4. CASE EngineCall
    <2>1. PICK r \in Requests : Call(r)
        BY <1>4 DEF EngineCall
    <2>2. UNCHANGED accessVars \/ DropToken(req[r].token)
        BY <2>1 DEF Call, EditCall, ReadCall, UpdateCall, MergeCall, CheckCall, ReleaseCall,
                    ExitCheckCall, DiscardCall, TokenCall, RollbackCall, ConfirmCall
    <2>3. req[r].token \in Tokens \cup {None}
        BY RequestFields DEF SessionsInv, SessionsTypeOK
    <2> QED
        BY <2>1, <2>2, <2>3 DEF AccessNext, SessionsNext
<1>5. CASE Commit
    BY <1>5 DEF Commit, CommitCall, AccessNext, SessionsNext
<1>6. CASE SessionEnds
    BY <1>6 DEF SessionEnds, IdleTimeout, ConfirmedTimeout, ForgetCli, AccessNext, SessionsNext
<1>7. CASE AlarmChange \/ Notify \/ OtherEvent \/ Stream
    BY <1>7 DEF AlarmChange, Notify, OtherEvent, Stream, AccessNext, SessionsNext
<1>8. CASE Restart
    BY <1>8 DEF Restart, AccessNext, SessionsNext
<1>9. CASE UNCHANGED vars
    BY <1>9 DEF vars, AccessNext, SessionsNext
<1> QED
    BY <1>1, <1>2, <1>3, <1>4, <1>5, <1>6, <1>7, <1>8, <1>9 DEF Next

LEMMA InitInv == Init => AccessInv /\ SessionsInv
<1> SUFFICES ASSUME Init PROVE AccessInv /\ SessionsInv
    OBVIOUS
<1>1. AccessInit /\ SessionsInit
    BY DEF Init
<1>2. AccessTypeOK
    BY <1>1, AccessAssumption DEF AccessInit, AccessTypeOK, NoLockout
<1>3. \A u \in Users : guesses[u] = <<>> /\ lockout[u] = NoLockout /\ Settled(u) = 0
    BY <1>1 DEF AccessInit, Settled, NoLockout
<1>4. LockoutBounds
    BY <1>3, AccessAssumption DEF LockoutBounds
<1>5. \A u \in Users : GuessInv(u)
    BY <1>3 DEF GuessInv, NoLockout
<1>6. SessionsTypeOK
    <2>1. {} \in Configs
        BY DEF Configs
    <2> QED
        BY <1>1, <2>1, DoneType DEF SessionsInit, SessionsTypeOK
<1>7. RequestInv /\ LockInv /\ HandInv
    BY <1>1 DEF SessionsInit, RequestInv, LockInv, HandInv
<1>8. (\A h \in Holders : HolderInv(h)) /\ \A r \in Requests : ViewInv(r)
    BY <1>1 DEF SessionsInit, HolderInv, ViewInv, Editing
<1> QED
    BY <1>2, <1>4, <1>5, <1>6, <1>7, <1>8 DEF AccessInv, SessionsInv

\* What is always true of the logins and of the sessions.  Requests under way are the
\* programs of handlers and commands, and write back what they read from the candidate as
\* it still is; the candidate belongs to the one who holds the lock; the failures counted
\* for a user are the wrong passwords since his last lock, all after that lock.
THEOREM InductiveInvariant == Spec => [](AccessInv /\ SessionsInv)
<1>1. AccessInv /\ SessionsInv /\ [Next]_vars => (AccessInv /\ SessionsInv)'
    BY ApiStep, AccessStep, SessionsStep
<1> QED
    BY <1>1, InitInv, PTL DEF Spec

\* The service of the logins and the engine, with the requests, keep their types.
THEOREM TypeCorrect == Spec => [](AccessTypeOK /\ SessionsTypeOK)
<1>1. AccessInv /\ SessionsInv => AccessTypeOK /\ SessionsTypeOK
    BY DEF AccessInv, SessionsInv
<1> QED
    BY <1>1, InductiveInvariant, PTL

\* Login (internal/aaa): among Threshold + 1 successive wrong passwords of a user some two
\* are a lock period apart, whatever other users, sweeps and expired locks do in between.
THEOREM LockoutHolds == Spec => []LockoutBounds
<1>1. AccessInv => LockoutBounds
    BY DEF AccessInv
<1> QED
    BY <1>1, InductiveInvariant, PTL

\* The edits that the handlers and the CLI accepted from a user are the candidate until he
\* commits or discards them, and he holds the lock, unless his own requests overlapped.
THEOREM EditsAreKept == Spec => []EditsSurvive
<1>1. SessionsInv => EditsSurvive
    BY DEF SessionsInv, HolderInv, EditsSurvive
<1> QED
    BY <1>1, InductiveInvariant, PTL

\* A lock that guards no edits and belongs to no session of several requests is held only
\* as long as a request of its holder is in progress (endOneShot), however it fails.
THEOREM LockIsHandedBack == Spec => []LockHandedBack
<1>1. SessionsInv => LockHandedBack
    BY DEF SessionsInv, HandInv, Returns, Busy, LockHandedBack
<1> QED
    BY <1>1, InductiveInvariant, PTL

\* A commit takes effect of exactly the edits of its own user on the configuration that
\* was committed when he began, unless his own requests overlapped.
THEOREM CommitIsOwn == Spec => CommitsOwn
<1>1. ASSUME SessionsInv, [Next]_vars, NEW r \in Requests, At(r, "commit"), req'[r] # req[r],
             committed' # committed
      PROVE  req[r].holder \in mixed \/ committed' = wish[req[r].holder]
    <2>1. PICK s \in Requests : CommitCall(s)
        <3>1. CASE \E s \in Requests : Call(s)
            BY <1>1, <3>1 DEF Call, EditCall, ReadCall, UpdateCall, MergeCall, CheckCall, ReleaseCall,
                    ExitCheckCall, DiscardCall, TokenCall, RollbackCall, ConfirmCall, ReleaseLocked,
                    engineVars
        <3>2. CASE \E s \in Requests, u \in Users : Rest(s, u) \/ Cli(s, u)
            BY <1>1, <3>2 DEF Rest, Cli, Begin, engineVars
        <3>3. CASE \/ IdleTimeout \/ ConfirmedTimeout \/ \E u \in Users : ForgetCli(u)
                   \/ SessionsRestart \/ UNCHANGED sessionVars
            BY <1>1, <3>3 DEF IdleTimeout, ReleaseLocked, ConfirmedTimeout, ForgetCli, SessionsRestart,
                    sessionVars, engineVars
        <3> QED
            BY <1>1, <3>1, <3>2, <3>3, ApiStep DEF SessionsNext
    <2>2. s = r
        BY <1>1, <2>1, CallGoes DEF SessionsInv, Goes
    <2>3. req[r].holder \in Holders
        BY <1>1, <2>1, <2>2, CallGoes DEF SessionsInv, Working
    <2>4. Editing(req[r].holder) /\ committed' = cand
        BY <1>1, <2>1, <2>2 DEF CommitCall
    <2> QED
        BY <1>1, <2>3, <2>4 DEF SessionsInv, HolderInv
<1>2. SessionsInv /\ [Next]_vars =>
        [\A r \in Requests : At(r, "commit") /\ req'[r] # req[r] /\ committed' # committed =>
            req[r].holder \in mixed \/ committed' = wish[req[r].holder]]_<<sessionVars, accessVars>>
    BY <1>1
<1> QED
    BY <1>2, InductiveInvariant, PTL DEF CommitsOwn, Spec
-----------------------------------------------------------------------------
(* Events *)

About(ev, a) == ev.type # "other" /\ ev.alarm = a

\* What is still to be published agrees with the table.
StoreInv ==
  \A i \in DOMAIN emitting :
    emitting[i].type # "other" /\ (emitting[i].type = "alarm-raised" <=> emitting[i].alarm \in Active)

\* The history is the last events, without a hole.
HistoryInv ==
  /\ Len(history) <= seq
  /\ \A i \in DOMAIN history : history[i].id = seq - Len(history) + i

\* The queue of a client that lost nothing: up to the gap it has every event in order.
QueueInv(c) ==
  LET q == client[c].queue  last == client[c].last  gap == client[c].gap
  IN /\ last <= seq /\ (last = 0 => client[c].view = {})
     /\ client[c].pc = "off" => q = <<>> /\ gap = 0
     /\ \A i \in DOMAIN q : last < q[i].id /\ q[i].id <= seq
     /\ \A i, j \in DOMAIN q : i < j => q[i].id < q[j].id
     /\ \A i \in DOMAIN q, j \in DOMAIN history : q[i].id = history[j].id => q[i] = history[j]
     /\ client[c].pc # "off" =>
          \A n \in (last + 1)..seq : gap = 0 \/ n < gap => \E i \in DOMAIN q : q[i].id = n
     /\ gap # 0 => last < gap /\ gap <= seq /\ \A i \in DOMAIN q : q[i].id # gap

\* What a client may yet read: from its queue, or from the history when it connects again.
Sent(c) == {ev \in Range(history) \cup Range(client[c].queue) : client[c].last < ev.id}

\* What such events say of an alarm to one who has this view: the last one decides.
Says(E, view, a, active) ==
  /\ \A ev \in E : About(ev, a) /\ (\A f \in E : About(f, a) => f.id <= ev.id)
       => (ev.type = "alarm-raised" <=> a \in active)
  /\ (\A ev \in E : ~About(ev, a)) => (a \in view <=> a \in active)

Complete(c) == \A n \in (client[c].last + 1)..seq : \E ev \in Sent(c) : ev.id = n

ToldInv(c) ==
  Complete(c) =>
    \A a \in Alarms : (\A i \in DOMAIN emitting : ~About(emitting[i], a))
                        => Says(Sent(c), client[c].view, a, Active)

EventsInv ==
  /\ EventsTypeOK /\ StoreInv /\ HistoryInv
  /\ \A c \in Clients : ~client[c].lost => QueueInv(c) /\ ToldInv(c)

-----------------------------------------------------------------------------
(* Events and their orders *)

LEMMA EntryFields ==
  ASSUME NEW e \in Entries
  PROVE  /\ e.id \in Nat /\ e.type \in {"alarm-raised", "alarm-resolved", "other"}
         /\ e.type # "other" => e.alarm \in Alarms
         /\ \A n \in Nat : /\ [e EXCEPT !.id = n] \in Entries /\ [e EXCEPT !.id = n].id = n
                           /\ [e EXCEPT !.id = n].type = e.type /\ [e EXCEPT !.id = n].alarm = e.alarm
<1>1. CASE e \in [type : {"alarm-raised", "alarm-resolved"}, alarm : Alarms, id : Nat]
  BY <1>1 DEF Entries
<1>2. CASE e \in [type : {"other"}, alarm : {{}}, id : Nat]
  BY <1>2 DEF Entries
<1> QED
  BY <1>1, <1>2 DEF Entries

LEMMA EventEntries ==
  /\ \A a \in Alarms, type \in {"alarm-raised", "alarm-resolved"} :
       Event(type, a) \in Entries /\ Event(type, a).type = type /\ Event(type, a).alarm = a
  /\ Event("other", {}) \in Entries /\ Event("other", {}).type = "other"
BY DEF Event, Entries

LEMMA OrderedEvents ==
  ASSUME NEW S \in SUBSET Alarms, NEW order \in Orders(S), NEW type \in {"alarm-raised", "alarm-resolved"}
  PROVE  LET s == AlarmEvents(type, order)
         IN /\ s \in Seq(Entries)
            /\ \A i \in DOMAIN s : s[i].type = type /\ s[i].alarm \in S
            /\ \A a \in S : \E i \in DOMAIN s : s[i].alarm = a
<1>1. IsFiniteSet(S)
  BY FS_Subset, EventsAssumption
<1>2. Cardinality(S) \in Nat
  BY <1>1, FS_CardinalityType
<1>3. order \in [1..Cardinality(S) -> S] /\ {order[i] : i \in DOMAIN order} = S
  BY DEF Orders, Range
<1> DEFINE s == AlarmEvents(type, order)
<1>4. s = [i \in 1..Cardinality(S) |-> Event(type, order[i])]
  BY <1>3 DEF AlarmEvents
<1>5. s \in [1..Cardinality(S) -> Entries]
  BY <1>3, <1>4, EventEntries
<1>6. s \in Seq(Entries)
  BY <1>2, <1>5, SeqDef
<1>7. \A i \in DOMAIN s : s[i].type = type /\ s[i].alarm = order[i]
  BY <1>3, <1>4, EventEntries
<1> QED
  BY <1>3, <1>4, <1>6, <1>7

\* Every change of the table is about to be published, and nothing else.
LEMMA TableChanges ==
  ASSUME EventsTypeOK,
         \/ \E a \in Alarms : Raise(a) \/ Resolve(a)
         \/ \E s \in {Scope[a] : a \in Alarms} : \E F \in SUBSET Alarms : Sync(s, F)
         \/ \E S \in SUBSET Alarms : Clear(S)
  PROVE  /\ emitting = <<>> /\ UNCHANGED <<seq, history, client>>
         /\ table' \in [Alarms -> {"none", "active", "resolved"}]
         /\ emitting' \in Seq(Entries) /\ StoreInv'
         /\ \A a \in Alarms : (\A i \in DOMAIN emitting' : ~About(emitting'[i], a))
                                => (a \in Active' <=> a \in Active)
<1>0. table \in [Alarms -> {"none", "active", "resolved"}]
  BY DEF EventsTypeOK
<1>1. ASSUME emitting' = <<>>, Active' = Active
      PROVE  emitting' \in Seq(Entries) /\ StoreInv'
  BY <1>1 DEF StoreInv
<1>2. ASSUME NEW a \in Alarms, NEW type \in {"alarm-raised", "alarm-resolved"},
             emitting' = <<Event(type, a)>>, type = "alarm-raised" <=> a \in Active'
      PROVE  /\ emitting' \in Seq(Entries) /\ StoreInv'
             /\ \E i \in DOMAIN emitting' : About(emitting'[i], a)
  <2>1. Event(type, a) \in Entries /\ Event(type, a).type = type /\ Event(type, a).alarm = a
    BY EventEntries
  <2>2. DOMAIN emitting' = {1} /\ emitting'[1] = Event(type, a) /\ emitting' \in Seq(Entries)
    BY <1>2, <2>1
  <2> QED
    BY <1>2, <2>1, <2>2 DEF StoreInv, About
<1>3. ASSUME NEW a \in Alarms, Raise(a)
      PROVE  /\ emitting = <<>> /\ UNCHANGED <<seq, history, client>>
             /\ table' \in [Alarms -> {"none", "active", "resolved"}]
             /\ emitting' \in Seq(Entries) /\ StoreInv'
             /\ \A b \in Alarms : (\A i \in DOMAIN emitting' : ~About(emitting'[i], b))
                                    => (b \in Active' <=> b \in Active)
  <2>1. /\ emitting = <<>> /\ UNCHANGED <<seq, history, client>>
        /\ table' \in [Alarms -> {"none", "active", "resolved"}]
        /\ Active' = Active \cup {a}
        /\ emitting' = IF a \in Active THEN <<>> ELSE <<Event("alarm-raised", a)>>
    BY <1>0, <1>3 DEF Raise, Active
  <2>2. CASE a \in Active
    BY <1>1, <2>1, <2>2
  <2>3. CASE a \notin Active
    <3>1. /\ emitting' \in Seq(Entries) /\ StoreInv'
          /\ \E i \in DOMAIN emitting' : About(emitting'[i], a)
      BY <1>2, <2>1, <2>3
    <3> QED
      BY <2>1, <3>1
  <2> QED
    BY <2>2, <2>3
<1>4. ASSUME NEW a \in Alarms, Resolve(a)
      PROVE  /\ emitting = <<>> /\ UNCHANGED <<seq, history, client>>
             /\ table' \in [Alarms -> {"none", "active", "resolved"}]
             /\ emitting' \in Seq(Entries) /\ StoreInv'
             /\ \A b \in Alarms : (\A i \in DOMAIN emitting' : ~About(emitting'[i], b))
                                    => (b \in Active' <=> b \in Active)
  <2>1. /\ emitting = <<>> /\ UNCHANGED <<seq, history, client>>
        /\ table' \in [Alarms -> {"none", "active", "resolved"}]
        /\ Active' = Active \ {a}
        /\ emitting' = <<Event("alarm-resolved", a)>>
    BY <1>0, <1>4 DEF Resolve, Active
  <2>2. /\ emitting' \in Seq(Entries) /\ StoreInv'
        /\ \E i \in DOMAIN emitting' : About(emitting'[i], a)
    BY <1>2, <2>1
  <2> QED
    BY <2>1, <2>2
<1>5. ASSUME NEW s, NEW F \in SUBSET Alarms, Sync(s, F)
      PROVE  /\ emitting = <<>> /\ UNCHANGED <<seq, history, client>>
             /\ table' \in [Alarms -> {"none", "active", "resolved"}]
             /\ emitting' \in Seq(Entries) /\ StoreInv'
             /\ \A b \in Alarms : (\A i \in DOMAIN emitting' : ~About(emitting'[i], b))
                                    => (b \in Active' <=> b \in Active)
  <2> DEFINE ours == {a \in Alarms : Scope[a] = s}
             new == F \ Active
             old == (ours \cap Active) \ F
  <2>1. /\ emitting = <<>> /\ UNCHANGED <<seq, history, client>> /\ F \subseteq ours
        /\ table' = Synced(ours, F)
    BY <1>5 DEF Sync
  <2>2. PICK up \in Orders(new), down \in Orders(old) :
          emitting' = AlarmEvents("alarm-raised", up) \o AlarmEvents("alarm-resolved", down)
    BY <1>5 DEF Sync
  <2>3. /\ new \in SUBSET Alarms /\ old \in SUBSET Alarms /\ ours \in SUBSET Alarms
        /\ Active \in SUBSET Alarms
    BY DEF Active
  <2> HIDE DEF ours, new, old
  <2>4. table' \in [Alarms -> {"none", "active", "resolved"}]
    BY <1>0, <2>1 DEF Synced
  <2>5. Active' = (Active \ old) \cup new
    <3>1. \A b \in Alarms : table'[b] = "active" <=> b \in F \/ (b \in Active /\ b \notin ours)
      BY <1>0, <2>1 DEF Synced, Active
    <3>2. Active' = {b \in Alarms : b \in F \/ (b \in Active /\ b \notin ours)}
      BY <3>1 DEF Active
    <3> QED
      BY <2>1, <2>3, <3>2 DEF new, old
  <2> DEFINE ups == AlarmEvents("alarm-raised", up)
             downs == AlarmEvents("alarm-resolved", down)
  <2>6. /\ ups \in Seq(Entries)
        /\ \A i \in DOMAIN ups : ups[i].type = "alarm-raised" /\ ups[i].alarm \in new
        /\ \A a \in new : \E i \in DOMAIN ups : ups[i].alarm = a
    BY <2>2, <2>3, OrderedEvents
  <2>7. /\ downs \in Seq(Entries)
        /\ \A i \in DOMAIN downs : downs[i].type = "alarm-resolved" /\ downs[i].alarm \in old
        /\ \A a \in old : \E i \in DOMAIN downs : downs[i].alarm = a
    BY <2>2, <2>3, OrderedEvents
  <2>8. emitting' = ups \o downs
    BY <2>2
  <2> HIDE DEF ups, downs
  <2>9. /\ emitting' \in Seq(Entries)
        /\ \A i \in DOMAIN emitting' : (\E j \in DOMAIN ups : emitting'[i] = ups[j])
                                       \/ (\E j \in DOMAIN downs : emitting'[i] = downs[j])
        /\ \A j \in DOMAIN ups : \E i \in DOMAIN emitting' : emitting'[i] = ups[j]
        /\ \A j \in DOMAIN downs : \E i \in DOMAIN emitting' : emitting'[i] = downs[j]
    <3>1. /\ Len(ups) \in Nat /\ DOMAIN ups = 1..Len(ups)
          /\ Len(downs) \in Nat /\ DOMAIN downs = 1..Len(downs)
      BY <2>6, <2>7, LenProperties
    <3>2. /\ emitting' \in Seq(Entries) /\ DOMAIN emitting' = 1..(Len(ups) + Len(downs))
          /\ \A i \in 1..(Len(ups) + Len(downs)) :
               emitting'[i] = IF i <= Len(ups) THEN ups[i] ELSE downs[i - Len(ups)]
      BY <2>6, <2>7, <2>8, ConcatProperties, LenProperties
    <3>3. \A j \in DOMAIN ups : j \in DOMAIN emitting' /\ emitting'[j] = ups[j]
      BY <3>1, <3>2
    <3>4. \A j \in DOMAIN downs : j + Len(ups) \in DOMAIN emitting' /\ emitting'[j + Len(ups)] = downs[j]
      BY <3>1, <3>2
    <3>5. \A i \in DOMAIN emitting' : i <= Len(ups) => i \in DOMAIN ups
      BY <3>1, <3>2
    <3>6. \A i \in DOMAIN emitting' : ~(i <= Len(ups)) => i - Len(ups) \in DOMAIN downs
      BY <3>1, <3>2
    <3> QED
      BY <3>2, <3>3, <3>4, <3>5, <3>6
  <2>10. StoreInv'
    <3>1. /\ \A b \in new : b \in Active'
          /\ \A b \in old : b \notin Active'
      BY <2>5 DEF new, old
    <3> QED
      BY <2>6, <2>7, <2>9, <3>1 DEF StoreInv
  <2>11. \A b \in new \cup old : \E i \in DOMAIN emitting' : About(emitting'[i], b)
    <3>1. \A j \in DOMAIN ups : ups[j].type # "other"
      BY <2>6
    <3>2. \A j \in DOMAIN downs : downs[j].type # "other"
      BY <2>7
    <3>3. ASSUME NEW b \in new PROVE \E i \in DOMAIN emitting' : About(emitting'[i], b)
      <4>1. PICK j \in DOMAIN ups : ups[j].alarm = b
        BY <2>6
      <4>2. PICK i \in DOMAIN emitting' : emitting'[i] = ups[j]
        BY <2>9
      <4> QED
        BY <3>1, <4>1, <4>2 DEF About
    <3>4. ASSUME NEW b \in old PROVE \E i \in DOMAIN emitting' : About(emitting'[i], b)
      <4>1. PICK j \in DOMAIN downs : downs[j].alarm = b
        BY <2>7
      <4>2. PICK i \in DOMAIN emitting' : emitting'[i] = downs[j]
        BY <2>9
      <4> QED
        BY <3>2, <4>1, <4>2 DEF About
    <3> QED
      BY <3>3, <3>4
  <2>12. \A b \in Alarms : b \notin new \cup old => (b \in Active' <=> b \in Active)
    BY <2>5
  <2> QED
    BY <2>1, <2>4, <2>9, <2>10, <2>11, <2>12
<1>6. ASSUME NEW S \in SUBSET Alarms, Clear(S)
      PROVE  /\ emitting = <<>> /\ UNCHANGED <<seq, history, client>>
             /\ table' \in [Alarms -> {"none", "active", "resolved"}]
             /\ emitting' \in Seq(Entries) /\ StoreInv'
             /\ \A b \in Alarms : (\A i \in DOMAIN emitting' : ~About(emitting'[i], b))
                                    => (b \in Active' <=> b \in Active)
  <2>1. /\ emitting = <<>> /\ emitting' = <<>> /\ UNCHANGED <<seq, history, client>>
        /\ table' \in [Alarms -> {"none", "active", "resolved"}]
        /\ \A b \in Alarms : table'[b] = "active" <=> table[b] = "active"
    BY <1>0, <1>6 DEF Clear
  <2>2. Active' = Active
    BY <2>1 DEF Active
  <2> QED
    BY <1>1, <2>1, <2>2
<1> QED
  BY <1>3, <1>4, <1>5, <1>6

-----------------------------------------------------------------------------
(* What events say *)

LEMMA SaysMore ==
  ASSUME NEW E, NEW s \in Nat, NEW ev, NEW view, NEW a, NEW active,
         ev.id = s + 1, \A x \in E : x.id \in Nat /\ x.id <= s,
         \/ About(ev, a) /\ (ev.type = "alarm-raised" <=> a \in active)
         \/ ~About(ev, a) /\ Says(E, view, a, active)
  PROVE  Says(E \cup {ev}, view, a, active)
<1>1. CASE About(ev, a) /\ (ev.type = "alarm-raised" <=> a \in active)
  <2>1. ASSUME NEW x \in E, ev.id <= x.id PROVE FALSE
    BY <2>1
  <2> QED
    BY <1>1, <2>1 DEF Says
<1>2. CASE ~About(ev, a) /\ Says(E, view, a, active)
  <2>1. ASSUME NEW x \in E \cup {ev}, About(x, a), \A f \in E \cup {ev} : About(f, a) => f.id <= x.id
        PROVE  x.type = "alarm-raised" <=> a \in active
    BY <1>2, <2>1 DEF Says
  <2> QED
    BY <1>2, <2>1 DEF Says
<1> QED
  BY <1>1, <1>2

LEMMA SaysRead ==
  ASSUME NEW E \in SUBSET Entries, NEW ev \in E, NEW view, NEW a, NEW active,
         \A x \in E : ev.id <= x.id, \A x, y \in E : x.id = y.id => x = y,
         Says(E, view, a, active)
  PROVE  Says({x \in E : ev.id < x.id},
              CASE ev.type = "alarm-raised" -> view \cup {ev.alarm}
                [] ev.type = "alarm-resolved" -> view \ {ev.alarm}
                [] OTHER -> view,
              a, active)
<1> DEFINE F == {x \in E : ev.id < x.id}
           read == CASE ev.type = "alarm-raised" -> view \cup {ev.alarm}
                     [] ev.type = "alarm-resolved" -> view \ {ev.alarm}
                     [] OTHER -> view
<1>1. \A x \in E : x.id \in Nat /\ x.type \in {"alarm-raised", "alarm-resolved", "other"}
  BY EntryFields
<1>2. \A x \in E : x = ev \/ x \in F
  BY <1>1
<1>3. ASSUME NEW x \in F, About(x, a), \A f \in F : About(f, a) => f.id <= x.id
      PROVE  x.type = "alarm-raised" <=> a \in active
  <2>1. \A f \in E : About(f, a) => f.id <= x.id
    BY <1>1, <1>2, <1>3
  <2> QED
    BY <1>3, <2>1 DEF Says
<1>4. ASSUME \A x \in F : ~About(x, a)
      PROVE  a \in read <=> a \in active
  <2>1. CASE About(ev, a)
    <3>1. \A f \in E : About(f, a) => f.id <= ev.id
      BY <1>1, <1>2, <1>4
    <3>2. ev.type = "alarm-raised" <=> a \in active
      BY <2>1, <3>1 DEF Says
    <3>3. ev.type \in {"alarm-raised", "alarm-resolved"} /\ ev.alarm = a
      BY <1>1, <2>1 DEF About
    <3> QED
      BY <3>2, <3>3
  <2>2. CASE ~About(ev, a)
    <3>1. a \in view <=> a \in active
      BY <1>2, <1>4, <2>2 DEF Says
    <3>2. ev.type = "other" \/ ev.alarm # a
      BY <2>2 DEF About
    <3> QED
      BY <3>1, <3>2
  <2> QED
    BY <2>1, <2>2
<1> QED
  BY <1>3, <1>4 DEF Says

LEMMA SaysSame ==
  ASSUME NEW E, NEW view, NEW a, NEW active, NEW next,
         Says(E, view, a, active), a \in next <=> a \in active
  PROVE  Says(E, view, a, next)
BY DEF Says

\* The events a client may yet read have different numbers.
LEMMA SentFacts ==
  ASSUME EventsTypeOK, HistoryInv, NEW c \in Clients, QueueInv(c)
  PROVE  /\ Sent(c) \in SUBSET Entries
         /\ \A x \in Sent(c) : x.id \in Nat /\ client[c].last < x.id /\ x.id <= seq
         /\ \A x, y \in Sent(c) : x.id = y.id => x = y
<1> DEFINE q == client[c].queue
<1>1. /\ seq \in Nat /\ history \in Seq(Entries) /\ q \in Seq(Entries)
      /\ client[c].last \in Nat
  BY DEF EventsTypeOK
<1>2. /\ Len(history) \in Nat /\ DOMAIN history = 1..Len(history)
      /\ Len(q) \in Nat /\ DOMAIN q = 1..Len(q)
  BY <1>1, LenProperties
<1>3. /\ \A i \in DOMAIN history : history[i] \in Entries
      /\ \A i \in DOMAIN q : q[i] \in Entries
  BY <1>1, <1>2, ElementOfSeq
<1>4. \A x \in Sent(c) : /\ client[c].last < x.id
                         /\ (\E i \in DOMAIN history : x = history[i]) \/ (\E i \in DOMAIN q : x = q[i])
  BY DEF Sent, Range
<1>5. \A e \in Entries : e.id \in Nat
  BY EntryFields
<1>6. \A i \in DOMAIN history : history[i].id <= seq
  BY <1>1, <1>2 DEF HistoryInv
<1>7. \A i \in DOMAIN q : q[i].id <= seq
  BY DEF QueueInv
<1>8. \A i, j \in DOMAIN history : history[i].id = history[j].id => history[i] = history[j]
  <2>1. ASSUME NEW i \in DOMAIN history, NEW j \in DOMAIN history, history[i].id = history[j].id
        PROVE  i = j
    <3>1. seq - Len(history) + i = seq - Len(history) + j
      BY <2>1 DEF HistoryInv
    <3> QED
      BY <1>1, <1>2, <3>1
  <2> QED
    BY <2>1
<1>9. \A i, j \in DOMAIN q : q[i].id = q[j].id => q[i] = q[j]
  <2>1. ASSUME NEW i \in DOMAIN q, NEW j \in DOMAIN q, i < j, q[i].id = q[j].id
        PROVE  FALSE
    <3>1. q[i].id < q[j].id /\ q[i].id \in Nat
      BY <1>3, <1>5, <2>1 DEF QueueInv
    <3> QED
      BY <2>1, <3>1
  <2>2. \A i, j \in DOMAIN q : i < j \/ j < i \/ i = j
    BY <1>2
  <2> QED
    BY <2>1, <2>2
<1>10. \A i \in DOMAIN q, j \in DOMAIN history : q[i].id = history[j].id => q[i] = history[j]
  BY DEF QueueInv
<1>11. ASSUME NEW x \in Sent(c) PROVE x \in Entries /\ x.id \in Nat /\ client[c].last < x.id /\ x.id <= seq
  BY <1>3, <1>4, <1>5, <1>6, <1>7
<1>12. ASSUME NEW x \in Sent(c), NEW y \in Sent(c), x.id = y.id PROVE x = y
  BY <1>4, <1>8, <1>9, <1>10, <1>12
<1> QED
  BY <1>11, <1>12

-----------------------------------------------------------------------------
(* Publishing *)

LEMMA Published ==
  ASSUME EventsTypeOK, HistoryInv, NEW e \in Entries, Publish(e)
  PROVE  LET ev == [e EXCEPT !.id = seq + 1]
         IN /\ ev \in Entries /\ ev.id = seq + 1 /\ ev.type = e.type /\ ev.alarm = e.alarm
            /\ seq' = seq + 1
            /\ history' \in Seq(Entries) /\ Len(history') <= HistMaxLen
            /\ HistoryInv'
            /\ \A i \in DOMAIN history' : history'[i] = ev \/ \E j \in DOMAIN history : history'[i] = history[j]
            /\ \E i \in DOMAIN history' : history'[i] = ev
<1> DEFINE ev == [e EXCEPT !.id = seq + 1]
           longer == Append(history, ev)
<1>1. /\ seq \in Nat /\ history \in Seq(Entries) /\ Len(history) <= HistMaxLen
      /\ Len(history) <= seq
      /\ \A i \in DOMAIN history : history[i].id = seq - Len(history) + i
      /\ HistMaxLen \in Nat \ {0}
  BY EventsAssumption DEF EventsTypeOK, HistoryInv
<1>2. Len(history) \in Nat /\ DOMAIN history = 1..Len(history)
  BY <1>1, LenProperties
<1>3. seq + 1 \in Nat
  BY <1>1
<1>4. ev \in Entries /\ ev.id = seq + 1 /\ ev.type = e.type /\ ev.alarm = e.alarm
  BY <1>3, EntryFields
<1>5. /\ seq' = seq + 1
      /\ history' = IF Len(longer) > HistMaxLen THEN Tail(longer) ELSE longer
  BY DEF Publish
<1> HIDE DEF ev
<1>6. /\ longer \in Seq(Entries) /\ Len(longer) = Len(history) + 1 /\ DOMAIN longer = 1..(Len(history) + 1)
      /\ \A i \in 1..Len(history) : longer[i] = history[i]
      /\ longer[Len(history) + 1] = ev
  BY <1>1, <1>2, <1>4, AppendProperties, LenProperties
<1> HIDE DEF longer
<1>7. \A i \in DOMAIN longer : longer[i].id = seq - Len(history) + i
  <2>1. \A i \in DOMAIN longer : i \in 1..Len(history) \/ i = Len(history) + 1
    BY <1>2, <1>6
  <2>2. longer[Len(history) + 1].id = seq - Len(history) + (Len(history) + 1)
    BY <1>1, <1>2, <1>4, <1>6
  <2>3. \A i \in 1..Len(history) : longer[i].id = seq - Len(history) + i
    BY <1>1, <1>2, <1>6
  <2> QED
    BY <2>1, <2>2, <2>3
<1>8. \A i \in DOMAIN longer : longer[i] = ev \/ \E j \in DOMAIN history : longer[i] = history[j]
  <2>1. \A i \in DOMAIN longer : i \in 1..Len(history) \/ i = Len(history) + 1
    BY <1>2, <1>6
  <2> QED
    BY <1>2, <1>6, <2>1
<1>9. CASE Len(longer) > HistMaxLen
  <2>1. history' = Tail(longer) /\ longer # <<>> /\ Len(history) = HistMaxLen
    <3>1. history' = Tail(longer)
      BY <1>5, <1>9
    <3>2. Len(history) = HistMaxLen
      <4>1. Len(history) \in Nat /\ HistMaxLen \in Nat /\ Len(history) <= HistMaxLen
        BY <1>1, <1>2
      <4>2. Len(history) + 1 > HistMaxLen
        BY <1>6, <1>9
      <4> QED
        BY <4>1, <4>2
    <3>3. longer # <<>>
      BY <1>2, <1>6
    <3> QED
      BY <3>1, <3>2, <3>3
  <2>2. /\ history' \in Seq(Entries) /\ Len(history') = Len(history) /\ DOMAIN history' = 1..Len(history)
        /\ \A i \in 1..Len(history) : history'[i] = longer[i + 1]
    BY <1>1, <1>2, <1>6, <2>1, HeadTailProperties, LenProperties
  <2>3. \A i \in DOMAIN history' : i + 1 \in DOMAIN longer
    BY <1>2, <1>6, <2>2
  <2>4. \A i \in DOMAIN history' : history'[i].id = seq' - Len(history') + i
    <3> SUFFICES ASSUME NEW i \in DOMAIN history'
                 PROVE  history'[i].id = seq' - Len(history') + i
      OBVIOUS
    <3>1. history'[i].id = seq - Len(history) + (i + 1)
      BY <1>7, <2>2, <2>3
    <3>2. i \in Int
      BY <2>2
    <3>3. seq - Len(history) + (i + 1) = (seq + 1) - Len(history) + i
      BY <1>1, <1>2, <3>2
    <3> QED
      BY <1>5, <2>2, <3>1, <3>3
  <2>5. HistoryInv'
    <3>1. Len(history') <= seq'
      BY <1>1, <1>2, <1>5, <2>2
    <3> QED
      BY <2>4, <3>1 DEF HistoryInv
  <2>6. Len(history) \in DOMAIN history' /\ history'[Len(history)] = ev
    BY <1>1, <1>2, <1>6, <2>1, <2>2
  <2>7. \A i \in DOMAIN history' : history'[i] = ev \/ \E j \in DOMAIN history : history'[i] = history[j]
    BY <1>8, <2>2, <2>3
  <2>8. Len(history') <= HistMaxLen
    BY <1>1, <2>2
  <2> QED
    BY <1>4, <1>5, <2>2, <2>5, <2>6, <2>7, <2>8 DEF ev
<1>10. CASE ~(Len(longer) > HistMaxLen)
  <2>1. history' = longer
    BY <1>5, <1>10
  <2>2. \A i \in DOMAIN history' : history'[i].id = seq' - Len(history') + i
    <3> SUFFICES ASSUME NEW i \in DOMAIN history'
                 PROVE  history'[i].id = seq' - Len(history') + i
      OBVIOUS
    <3>1. history'[i].id = seq - Len(history) + i
      BY <1>7, <2>1
    <3>2. i \in Int
      BY <1>2, <1>6, <2>1
    <3>3. seq - Len(history) + i = (seq + 1) - (Len(history) + 1) + i
      BY <1>1, <1>2, <3>2
    <3> QED
      BY <1>5, <1>6, <2>1, <3>1, <3>3
  <2>3. HistoryInv'
    <3>1. Len(history') <= seq'
      BY <1>1, <1>2, <1>5, <1>6, <2>1
    <3> QED
      BY <2>2, <3>1 DEF HistoryInv
  <2>4. Len(history) + 1 \in DOMAIN history' /\ history'[Len(history) + 1] = ev
    BY <1>2, <1>6, <2>1
  <2>5. Len(history') <= HistMaxLen
    BY <1>1, <1>2, <1>6, <1>10, <2>1
  <2> QED
    BY <1>4, <1>5, <1>6, <1>8, <2>1, <2>3, <2>4, <2>5 DEF ev
<1> QED
  BY <1>9, <1>10

LEMMA Handed ==
  ASSUME EventsTypeOK, NEW e \in Entries, Publish(e), NEW c \in Clients
  PROVE  LET ev == [e EXCEPT !.id = seq + 1]
         IN /\ client' \in [Clients -> [pc : {"off", "replay", "live"}, queue : Seq(Entries), last : Nat,
                                        view : SUBSET Alarms, gap : Nat, lost : BOOLEAN]]
            /\ client'[c].pc = "live" => Len(client'[c].queue) <= SubBuffer
            /\ client'[c].pc = client[c].pc /\ client'[c].last = client[c].last
            /\ client'[c].view = client[c].view /\ client'[c].lost = client[c].lost
            /\ \/ client[c].pc = "off" /\ client'[c].queue = client[c].queue /\ client'[c].gap = client[c].gap
               \/ /\ client[c].pc # "off" /\ client'[c].queue = Append(client[c].queue, ev)
                  /\ client'[c].gap = client[c].gap
               \/ /\ client[c].pc # "off" /\ client'[c].queue = client[c].queue
                  /\ client'[c].gap = IF client[c].gap = 0 THEN seq + 1 ELSE client[c].gap
<1> DEFINE C == [pc : {"off", "replay", "live"}, queue : Seq(Entries), last : Nat,
                 view : SUBSET Alarms, gap : Nat, lost : BOOLEAN]
           ev == [e EXCEPT !.id = seq + 1]
           Missed(d) == [d EXCEPT !.gap = IF @ = 0 THEN ev.id ELSE @]
           Hand(d) == CASE d.pc = "off" -> d
                        [] d.pc = "replay" -> Missed(d)
                        [] d.pc = "live" /\ Len(d.queue) < SubBuffer
                             -> [d EXCEPT !.queue = Append(@, ev)]
                        [] OTHER -> Missed(d)
<1>1. seq + 1 \in Nat /\ SubBuffer \in Nat
  BY EventsAssumption DEF EventsTypeOK
<1>2. ev \in Entries /\ ev.id = seq + 1
  BY <1>1, EntryFields
<1>3. client \in [Clients -> C] /\ \A d \in Clients : client[d].pc = "live" => Len(client[d].queue) <= SubBuffer
  BY DEF EventsTypeOK
<1>4. client' = [d \in Clients |-> Hand(client[d])]
  BY DEF Publish
<1> HIDE DEF ev
<1>5. ASSUME NEW d \in C, d.pc = "live" => Len(d.queue) <= SubBuffer
      PROVE  /\ Hand(d) \in C
             /\ Hand(d).pc = "live" => Len(Hand(d).queue) <= SubBuffer
             /\ Hand(d).pc = d.pc /\ Hand(d).last = d.last /\ Hand(d).view = d.view /\ Hand(d).lost = d.lost
             /\ \/ d.pc = "off" /\ Hand(d).queue = d.queue /\ Hand(d).gap = d.gap
                \/ d.pc # "off" /\ Hand(d).queue = Append(d.queue, ev) /\ Hand(d).gap = d.gap
                \/ /\ d.pc # "off" /\ Hand(d).queue = d.queue
                   /\ Hand(d).gap = IF d.gap = 0 THEN seq + 1 ELSE d.gap
  <2>1. CASE d.pc = "off"
    BY <1>5, <2>1
  <2>2. CASE d.pc = "live" /\ Len(d.queue) < SubBuffer
    <3>1. Append(d.queue, ev) \in Seq(Entries) /\ Len(Append(d.queue, ev)) = Len(d.queue) + 1
      BY <1>2, AppendProperties
    <3>2. Hand(d) = [d EXCEPT !.queue = Append(d.queue, ev)]
      BY <2>2
    <3>3. Len(d.queue) \in Nat
      BY LenProperties
    <3>4. Len(d.queue) + 1 <= SubBuffer
      BY <1>1, <2>2, <3>3
    <3> HIDE DEF Hand
    <3> DEFINE q == Append(d.queue, ev)
    <3> HIDE DEF q
    <3>5. /\ Hand(d) \in C /\ Hand(d).queue = q /\ Hand(d).pc = d.pc /\ Hand(d).last = d.last
          /\ Hand(d).view = d.view /\ Hand(d).lost = d.lost /\ Hand(d).gap = d.gap
      BY <3>1, <3>2 DEF q
    <3> QED
      BY <2>2, <3>1, <3>4, <3>5 DEF q
  <2>3. CASE d.pc # "off" /\ ~(d.pc = "live" /\ Len(d.queue) < SubBuffer)
    <3>1. Hand(d) = [d EXCEPT !.gap = IF d.gap = 0 THEN ev.id ELSE d.gap]
      BY <2>3
    <3> HIDE DEF Hand
    <3> QED
      BY <1>1, <1>2, <1>5, <2>3, <3>1
  <2> QED
    BY <2>1, <2>2, <2>3
<1>6. \A d \in Clients : client'[d] = Hand(client[d]) /\ client[d] \in C
  BY <1>3, <1>4
<1>7. client' \in [Clients -> C]
  <2>1. \A d \in Clients : Hand(client[d]) \in C
    BY <1>3, <1>5, <1>6
  <2> HIDE DEF Hand, C
  <2> QED
    BY <1>4, <2>1
<1> HIDE DEF Hand, C
<1> QED
  BY <1>3, <1>5, <1>6, <1>7 DEF ev, C

\* A client that is handed an event, or misses it, still knows where its hole begins.
LEMMA PublishQueue ==
  ASSUME EventsTypeOK, HistoryInv, NEW e \in Entries, Publish(e), NEW c \in Clients, QueueInv(c)
  PROVE  QueueInv(c)'
<1> DEFINE ev == [e EXCEPT !.id = seq + 1]
           q == client[c].queue  last == client[c].last  gap == client[c].gap
<1>1. /\ ev \in Entries /\ ev.id = seq + 1 /\ seq' = seq + 1
      /\ \A i \in DOMAIN history' : history'[i] = ev \/ \E j \in DOMAIN history : history'[i] = history[j]
  BY Published
<1>2. /\ client'[c].pc = client[c].pc /\ client'[c].last = last /\ client'[c].view = client[c].view
      /\ \/ client[c].pc = "off" /\ client'[c].queue = q /\ client'[c].gap = gap
         \/ client[c].pc # "off" /\ client'[c].queue = Append(q, ev) /\ client'[c].gap = gap
         \/ client[c].pc # "off" /\ client'[c].queue = q /\ client'[c].gap = IF gap = 0 THEN seq + 1 ELSE gap
  BY Handed
<1>3. seq \in Nat /\ q \in Seq(Entries) /\ last \in Nat /\ gap \in Nat /\ history \in Seq(Entries)
  BY DEF EventsTypeOK
<1>4. /\ Len(q) \in Nat /\ DOMAIN q = 1..Len(q) /\ Len(history) \in Nat /\ DOMAIN history = 1..Len(history)
      /\ Append(q, ev) \in Seq(Entries) /\ DOMAIN Append(q, ev) = 1..(Len(q) + 1)
      /\ \A i \in 1..Len(q) : Append(q, ev)[i] = q[i]
      /\ Append(q, ev)[Len(q) + 1] = ev
  BY <1>1, <1>3, LenProperties, AppendProperties
<1> HIDE DEF ev
<1>5. /\ \A i \in DOMAIN q : q[i].id \in Nat
      /\ \A i \in DOMAIN history : history[i].id \in Nat /\ history[i].id <= seq
  <2>1. \A i \in DOMAIN q : q[i] \in Entries
    BY <1>3, <1>4, ElementOfSeq
  <2>2. \A i \in DOMAIN history : history[i].id <= seq
    BY <1>3, <1>4 DEF HistoryInv
  <2>3. \A i \in DOMAIN history : history[i] \in Entries
    BY <1>3, <1>4, ElementOfSeq
  <2> QED
    BY <2>1, <2>2, <2>3, EntryFields
<1>6. /\ last <= seq /\ (last = 0 => client[c].view = {})
      /\ client[c].pc = "off" => q = <<>> /\ gap = 0
      /\ \A i \in DOMAIN q : last < q[i].id /\ q[i].id <= seq
      /\ \A i, j \in DOMAIN q : i < j => q[i].id < q[j].id
      /\ \A i \in DOMAIN q, j \in DOMAIN history : q[i].id = history[j].id => q[i] = history[j]
      /\ client[c].pc # "off" =>
           \A n \in (last + 1)..seq : gap = 0 \/ n < gap => \E i \in DOMAIN q : q[i].id = n
      /\ gap # 0 => last < gap /\ gap <= seq /\ \A i \in DOMAIN q : q[i].id # gap
  BY DEF QueueInv
<1> HIDE DEF q, last, gap
<1>7. last <= seq' /\ (last = 0 => client[c].view = {})
  BY <1>1, <1>3, <1>6
<1>8. \A i \in DOMAIN q : last < q[i].id /\ q[i].id <= seq'
  BY <1>1, <1>3, <1>5, <1>6
<1>9. \A i \in DOMAIN q, j \in DOMAIN history' : q[i].id = history'[j].id => q[i] = history'[j]
  <2>1. \A i \in DOMAIN q : q[i].id # ev.id
    BY <1>1, <1>3, <1>5, <1>6
  <2> QED
    BY <1>1, <1>6, <2>1
<1>10. CASE client[c].pc = "off" /\ client'[c].queue = q /\ client'[c].gap = gap
  BY <1>2, <1>6, <1>7, <1>8, <1>9, <1>10 DEF QueueInv, last, gap, q
<1>11. CASE client[c].pc # "off" /\ client'[c].queue = Append(q, ev) /\ client'[c].gap = gap
  <2> DEFINE r == Append(q, ev)
  <2> HIDE DEF r
  <2>1. /\ DOMAIN r = 1..(Len(q) + 1) /\ r[Len(q) + 1] = ev
        /\ \A i \in DOMAIN q : i \in DOMAIN r /\ r[i] = q[i]
        /\ \A i \in DOMAIN r : i \in DOMAIN q \/ i = Len(q) + 1
    BY <1>4 DEF r
  <2>2. \A i \in DOMAIN r : last < r[i].id /\ r[i].id <= seq'
    <3>1. last < ev.id /\ ev.id <= seq'
      BY <1>1, <1>3, <1>6
    <3> QED
      BY <1>8, <2>1, <3>1
  <2>3. ASSUME NEW i \in DOMAIN r, NEW j \in DOMAIN r, i < j
        PROVE  r[i].id < r[j].id
    <3>1. i \in DOMAIN q
      BY <1>4, <2>1, <2>3
    <3>2. CASE j \in DOMAIN q
      BY <1>6, <2>1, <2>3, <3>1, <3>2
    <3>3. CASE j = Len(q) + 1
      BY <1>1, <1>3, <1>5, <1>6, <2>1, <3>1, <3>3
    <3> QED
      BY <2>1, <3>2, <3>3
  <2>4. \A i \in DOMAIN r, j \in DOMAIN history' : r[i].id = history'[j].id => r[i] = history'[j]
    <3>1. \A j \in DOMAIN history : history[j].id # ev.id
      BY <1>1, <1>3, <1>5
    <3>2. \A j \in DOMAIN history' : ev.id = history'[j].id => ev = history'[j]
      BY <1>1, <3>1
    <3> QED
      BY <1>9, <2>1, <3>2
  <2>5. \A n \in (last + 1)..seq' : gap = 0 \/ n < gap => \E i \in DOMAIN r : r[i].id = n
    <3>1. \A n \in (last + 1)..seq' : n \in (last + 1)..seq \/ n = ev.id
      BY <1>1, <1>3
    <3>2. Len(q) + 1 \in DOMAIN r
      BY <1>4, <2>1
    <3> QED
      BY <1>6, <1>11, <2>1, <3>1, <3>2
  <2>6. gap # 0 => last < gap /\ gap <= seq' /\ \A i \in DOMAIN r : r[i].id # gap
    <3>1. gap # 0 => gap <= seq' /\ ev.id # gap
      BY <1>1, <1>3, <1>6
    <3> QED
      BY <1>6, <2>1, <3>1
  <2>7. client'[c].queue = r
    BY <1>11 DEF r
  <2> QED
    BY <1>2, <1>7, <1>11, <2>2, <2>3, <2>4, <2>5, <2>6, <2>7 DEF QueueInv, last, gap
<1>12. CASE client[c].pc # "off" /\ client'[c].queue = q /\ client'[c].gap = IF gap = 0 THEN seq + 1 ELSE gap
  <2> DEFINE g == IF gap = 0 THEN seq + 1 ELSE gap
  <2>1. g \in Nat /\ g # 0 /\ last < g /\ g <= seq'
    BY <1>1, <1>3, <1>6
  <2>2. \A i \in DOMAIN q : q[i].id # g
    BY <1>3, <1>5, <1>6
  <2>3. ASSUME NEW n \in (last + 1)..seq', n < g
        PROVE  \E i \in DOMAIN q : q[i].id = n
    <3>1. n \in (last + 1)..seq /\ (gap = 0 \/ n < gap)
      BY <1>1, <1>3, <1>6, <2>3
    <3> QED
      BY <1>6, <1>12, <3>1
  <2>4. client'[c].gap = g
    BY <1>12
  <2> HIDE DEF g
  <2> QED
    BY <1>2, <1>6, <1>7, <1>8, <1>9, <1>12, <2>1, <2>2, <2>3, <2>4 DEF QueueInv, last, q
<1> QED
  BY <1>2, <1>10, <1>11, <1>12

LEMMA PublishTold ==
  ASSUME EventsTypeOK, HistoryInv, NEW e \in Entries, Publish(e), UNCHANGED table,
         NEW c \in Clients, QueueInv(c), ToldInv(c),
         \A a \in Alarms : (\A i \in DOMAIN emitting' : ~About(emitting'[i], a))
            => \/ About(e, a) /\ (e.type = "alarm-raised" <=> a \in Active)
               \/ ~About(e, a) /\ \A i \in DOMAIN emitting : ~About(emitting[i], a)
  PROVE  ToldInv(c)'
<1> DEFINE ev == [e EXCEPT !.id = seq + 1]
           q == client[c].queue  last == client[c].last
<1> SUFFICES ASSUME Complete(c)',
                    NEW a \in Alarms, \A i \in DOMAIN emitting' : ~About(emitting'[i], a)
             PROVE  Says(Sent(c)', client'[c].view, a, Active')
  BY DEF ToldInv
<1>1. /\ ev \in Entries /\ ev.id = seq + 1 /\ seq' = seq + 1 /\ ev.type = e.type /\ ev.alarm = e.alarm
      /\ \A i \in DOMAIN history' : history'[i] = ev \/ \E j \in DOMAIN history : history'[i] = history[j]
      /\ \E i \in DOMAIN history' : history'[i] = ev
  BY Published
<1>2. /\ client'[c].last = last /\ client'[c].view = client[c].view
      /\ client'[c].queue = q \/ client'[c].queue = Append(q, ev)
  BY Handed
<1>3. seq \in Nat /\ q \in Seq(Entries) /\ last \in Nat
  BY DEF EventsTypeOK
<1> HIDE DEF ev
<1>4. Range(client'[c].queue) \subseteq Range(q) \cup {ev}
  <2>1. /\ DOMAIN q = 1..Len(q) /\ Len(q) \in Nat
        /\ DOMAIN Append(q, ev) = 1..(Len(q) + 1)
        /\ \A i \in 1..Len(q) : Append(q, ev)[i] = q[i]
        /\ Append(q, ev)[Len(q) + 1] = ev
    BY <1>1, <1>3, LenProperties, AppendProperties
  <2>2. \A i \in 1..(Len(q) + 1) : i \in 1..Len(q) \/ i = Len(q) + 1
    BY <2>1
  <2>3. \A i \in DOMAIN Append(q, ev) : Append(q, ev)[i] \in Range(q) \cup {ev}
    BY <2>1, <2>2 DEF Range
  <2>4. Range(Append(q, ev)) \subseteq Range(q) \cup {ev}
    BY <2>3 DEF Range
  <2> QED
    BY <1>2, <2>4
<1>5. Range(history') \subseteq Range(history) \cup {ev} /\ ev \in Range(history')
  BY <1>1 DEF Range
<1>6. /\ Sent(c) \in SUBSET Entries
      /\ \A x \in Sent(c) : x.id \in Nat /\ last < x.id /\ x.id <= seq
      /\ \A x, y \in Sent(c) : x.id = y.id => x = y
      /\ last <= seq
  BY SentFacts DEF QueueInv
<1>7. Sent(c)' \subseteq Sent(c) \cup {ev} /\ ev \in Sent(c)'
  <2>1. last < ev.id
    BY <1>1, <1>3, <1>6
  <2> QED
    BY <1>2, <1>4, <1>5, <2>1 DEF Sent
<1>8. \A n \in (last + 1)..seq' : \E x \in Sent(c)' : x.id = n
  BY <1>2 DEF Complete
<1>9. \A n \in (last + 1)..seq : \E x \in Sent(c)' : x.id = n /\ x \in Sent(c)
  <2>1. \A n \in (last + 1)..seq : n \in (last + 1)..seq' /\ n # ev.id
    BY <1>1, <1>3
  <2> QED
    BY <1>7, <1>8, <2>1
<1>10. Sent(c)' = Sent(c) \cup {ev}
  <2>1. ASSUME NEW x \in Sent(c) PROVE x \in Sent(c)'
    <3>1. x.id \in (last + 1)..seq
      BY <1>3, <1>6
    <3> QED
      BY <1>6, <1>9, <3>1
  <2> QED
    BY <1>7, <2>1
<1>11. Complete(c)
  BY <1>9 DEF Complete
<1>12. \/ About(ev, a) /\ (ev.type = "alarm-raised" <=> a \in Active)
       \/ ~About(ev, a) /\ Says(Sent(c), client[c].view, a, Active)
  BY <1>1, <1>11 DEF ToldInv, About
<1>13. Says(Sent(c) \cup {ev}, client[c].view, a, Active)
  <2> DEFINE E == Sent(c)  view == client[c].view  active == Active
  <2>1. ev.id = seq + 1 /\ \A x \in E : x.id \in Nat /\ x.id <= seq
    BY <1>1, <1>6
  <2>2. \/ About(ev, a) /\ (ev.type = "alarm-raised" <=> a \in active)
        \/ ~About(ev, a) /\ Says(E, view, a, active)
    BY <1>12
  <2> HIDE DEF E, view, active
  <2>3. Says(E \cup {ev}, view, a, active)
    BY <1>3, <2>1, <2>2, SaysMore
  <2> QED
    BY <2>3 DEF E, view, active
<1>14. Active' = Active
  BY DEF Active
<1> QED
  BY <1>2, <1>10, <1>13, <1>14

LEMMA PublishStep ==
  ASSUME EventsInv, NEW e \in Entries, Publish(e), UNCHANGED table, emitting' \in Seq(Entries), StoreInv',
         \A a \in Alarms : (\A i \in DOMAIN emitting' : ~About(emitting'[i], a))
            => \/ About(e, a) /\ (e.type = "alarm-raised" <=> a \in Active)
               \/ ~About(e, a) /\ \A i \in DOMAIN emitting : ~About(emitting[i], a)
  PROVE  EventsInv'
<1>1. EventsTypeOK /\ HistoryInv
  BY DEF EventsInv
<1>2. seq' \in Nat /\ history' \in Seq(Entries) /\ Len(history') <= HistMaxLen /\ HistoryInv'
  <2>1. /\ seq' = seq + 1 /\ history' \in Seq(Entries) /\ Len(history') <= HistMaxLen /\ HistoryInv'
    BY <1>1, Published
  <2>2. seq \in Nat
    BY <1>1 DEF EventsTypeOK
  <2> QED
    BY <2>1, <2>2
<1>3. /\ client' \in [Clients -> [pc : {"off", "replay", "live"}, queue : Seq(Entries), last : Nat,
                                  view : SUBSET Alarms, gap : Nat, lost : BOOLEAN]]
  <2>1. CASE Clients = {}
    <3>1. \A C : client' = [c \in Clients |-> client'[c]] /\ (\A c \in Clients : client'[c] \in C) => client' \in [Clients -> C]
      OBVIOUS
    <3>2. client' = [c \in Clients |-> client'[c]]
      BY DEF Publish
    <3> QED
      BY <2>1, <3>1, <3>2
  <2>2. CASE Clients # {}
    BY <1>1, <2>2, Handed
  <2> QED
    BY <2>1, <2>2
<1>4. \A c \in Clients : client'[c].lost = client[c].lost
                         /\ (client'[c].pc = "live" => Len(client'[c].queue) <= SubBuffer)
  BY <1>1, Handed
<1>5. EventsTypeOK'
  <2>1. table' \in [Alarms -> {"none", "active", "resolved"}]
    BY <1>1 DEF EventsTypeOK
  <2> QED
    BY <1>2, <1>3, <1>4, <2>1 DEF EventsTypeOK
<1>6. ASSUME NEW c \in Clients, ~client'[c].lost PROVE QueueInv(c)' /\ ToldInv(c)'
  <2>1. QueueInv(c) /\ ToldInv(c)
    BY <1>4, <1>6 DEF EventsInv
  <2> QED
    BY <1>1, <2>1, PublishQueue, PublishTold
<1> QED
  BY <1>2, <1>5, <1>6 DEF EventsInv

LEMMA EmitStep ==
  ASSUME EventsInv, Emit
  PROVE  EventsInv'
<1>1. emitting \in Seq(Entries) /\ emitting # <<>> /\ StoreInv
  BY DEF EventsInv, EventsTypeOK, Emit
<1> DEFINE e == Head(emitting)
<1>2. Publish(e) /\ emitting' = Tail(emitting) /\ UNCHANGED table
  BY DEF Emit
<1>3. /\ e \in Entries /\ e = emitting[1] /\ emitting' \in Seq(Entries)
      /\ Len(emitting) \in Nat /\ Len(emitting) # 0
      /\ DOMAIN emitting = 1..Len(emitting) /\ DOMAIN emitting' = 1..(Len(emitting) - 1)
      /\ \A i \in 1..(Len(emitting) - 1) : emitting'[i] = emitting[i + 1]
  BY <1>1, <1>2, HeadTailProperties, LenProperties, EmptySeq
<1> HIDE DEF e
<1>4. \A i \in DOMAIN emitting' : i + 1 \in DOMAIN emitting /\ emitting'[i] = emitting[i + 1]
  BY <1>3
<1>5. \A i \in DOMAIN emitting : i = 1 \/ (i - 1 \in DOMAIN emitting' /\ emitting'[i - 1] = emitting[i])
  BY <1>3
<1>6. Active' = Active
  BY <1>2 DEF Active
<1>7. StoreInv'
  BY <1>1, <1>4, <1>6 DEF StoreInv
<1>8. e.type # "other" /\ (e.type = "alarm-raised" <=> e.alarm \in Active)
  BY <1>1, <1>3 DEF StoreInv
<1>9. ASSUME NEW a \in Alarms, \A i \in DOMAIN emitting' : ~About(emitting'[i], a)
      PROVE  \/ About(e, a) /\ (e.type = "alarm-raised" <=> a \in Active)
             \/ ~About(e, a) /\ \A i \in DOMAIN emitting : ~About(emitting[i], a)
  BY <1>3, <1>5, <1>8, <1>9 DEF About
<1> QED
  BY <1>2, <1>3, <1>7, <1>9, PublishStep

LEMMA OtherStep ==
  ASSUME EventsInv, PublishOther
  PROVE  EventsInv'
<1> DEFINE e == Event("other", {})
<1>1. e \in Entries /\ e.type = "other"
  BY EventEntries
<1>2. Publish(e) /\ UNCHANGED <<table, emitting>>
  BY DEF PublishOther
<1>3. emitting' \in Seq(Entries) /\ StoreInv'
  BY <1>2 DEF EventsInv, EventsTypeOK, StoreInv, Active
<1>4. \A a : ~About(e, a)
  BY <1>1 DEF About
<1> HIDE DEF e
<1> QED
  BY <1>1, <1>2, <1>3, <1>4, PublishStep

LEMMA TableStep ==
  ASSUME EventsInv,
         \/ \E a \in Alarms : Raise(a) \/ Resolve(a)
         \/ \E s \in {Scope[a] : a \in Alarms} : \E F \in SUBSET Alarms : Sync(s, F)
         \/ \E S \in SUBSET Alarms : Clear(S)
  PROVE  EventsInv'
<1>1. /\ emitting = <<>> /\ UNCHANGED <<seq, history, client>>
      /\ table' \in [Alarms -> {"none", "active", "resolved"}]
      /\ emitting' \in Seq(Entries) /\ StoreInv'
      /\ \A a \in Alarms : (\A i \in DOMAIN emitting' : ~About(emitting'[i], a))
                             => (a \in Active' <=> a \in Active)
  BY TableChanges DEF EventsInv
<1>2. EventsTypeOK' /\ HistoryInv'
  BY <1>1 DEF EventsInv, EventsTypeOK, HistoryInv
<1>3. ASSUME NEW c \in Clients, ~client'[c].lost PROVE QueueInv(c)' /\ ToldInv(c)'
  <2>1. QueueInv(c) /\ ToldInv(c)
    BY <1>1, <1>3 DEF EventsInv
  <2>2. QueueInv(c)'
    BY <1>1, <2>1 DEF QueueInv
  <2>3. Sent(c)' = Sent(c) /\ (Complete(c)' => Complete(c))
    BY <1>1 DEF Sent, Complete
  <2>4. ASSUME Complete(c), NEW a \in Alarms, \A i \in DOMAIN emitting' : ~About(emitting'[i], a)
        PROVE  Says(Sent(c)', client'[c].view, a, Active')
    <3>1. Says(Sent(c), client[c].view, a, Active)
      BY <1>1, <2>1, <2>4 DEF ToldInv
    <3>2. a \in Active' <=> a \in Active
      BY <1>1, <2>4
    <3> DEFINE E == Sent(c)  view == client[c].view  active == Active  next == Active'
    <3>3. client'[c].view = view
      BY <1>1
    <3> HIDE DEF E, view, active, next
    <3>4. Says(E, view, a, active) /\ (a \in next <=> a \in active)
      BY <3>1, <3>2 DEF E, view, active, next
    <3>5. Says(E, view, a, next)
      BY <3>4, SaysSame
    <3> QED
      BY <2>3, <3>3, <3>5 DEF E, next
  <2> QED
    BY <2>2, <2>3, <2>4 DEF ToldInv
<1> QED
  BY <1>1, <1>2, <1>3 DEF EventsInv

-----------------------------------------------------------------------------
(* The clients *)

LEMMA OneClient ==
  ASSUME EventsInv, UNCHANGED <<table, emitting, seq, history>>, NEW c \in Clients,
         NEW d \in [pc : {"off", "replay", "live"}, queue : Seq(Entries), last : Nat,
                    view : SUBSET Alarms, gap : Nat, lost : BOOLEAN],
         d.pc = "live" => Len(d.queue) <= SubBuffer,
         client' = [client EXCEPT ![c] = d],
         ~d.lost => QueueInv(c)' /\ ToldInv(c)'
  PROVE  EventsInv'
<1> DEFINE C == [pc : {"off", "replay", "live"}, queue : Seq(Entries), last : Nat,
                 view : SUBSET Alarms, gap : Nat, lost : BOOLEAN]
<1>1. client \in [Clients -> C] /\ d \in C
  BY DEF EventsInv, EventsTypeOK
<1> HIDE DEF C
<1>2. client' \in [Clients -> C] /\ client'[c] = d /\ \A b \in Clients : b # c => client'[b] = client[b]
  BY <1>1
<1>3. EventsTypeOK'
  <2>1. \A b \in Clients : client'[b].pc = "live" => Len(client'[b].queue) <= SubBuffer
    BY <1>2 DEF EventsInv, EventsTypeOK
  <2> QED
    BY <1>2, <2>1 DEF EventsInv, EventsTypeOK, C
<1>4. StoreInv' /\ HistoryInv' /\ Active' = Active
  BY DEF EventsInv, StoreInv, HistoryInv, Active
<1>5. ASSUME NEW b \in Clients, b # c, ~client'[b].lost PROVE QueueInv(b)' /\ ToldInv(b)'
  <2>1. client'[b] = client[b] /\ QueueInv(b) /\ ToldInv(b)
    BY <1>2, <1>5 DEF EventsInv
  <2>2. QueueInv(b)'
    BY <2>1 DEF QueueInv
  <2>3. Sent(b)' = Sent(b)
    BY <2>1 DEF Sent
  <2>4. Complete(b)' <=> Complete(b)
    BY <2>1, <2>3 DEF Complete
  <2>5. ASSUME Complete(b), NEW a \in Alarms, \A i \in DOMAIN emitting : ~About(emitting[i], a)
        PROVE  Says(Sent(b)', client'[b].view, a, Active')
    <3>1. Says(Sent(b), client[b].view, a, Active)
      BY <2>1, <2>5 DEF ToldInv
    <3> QED
      BY <1>4, <2>1, <2>3, <3>1
  <2> QED
    BY <2>2, <2>4, <2>5 DEF ToldInv
<1> QED
  BY <1>2, <1>3, <1>4, <1>5 DEF EventsInv

\* Since: the events of the history that are numbered after n.
LEMMA SinceFacts ==
  ASSUME EventsTypeOK, HistoryInv, NEW n \in Nat, n <= seq
  PROVE  LET since == Since(n)
         IN /\ since \in Seq(Entries)
            /\ \A i \in DOMAIN since : /\ n < since[i].id /\ since[i].id <= seq
                                      /\ \E j \in DOMAIN history : since[i] = history[j]
            /\ \A i, j \in DOMAIN since : i < j => since[i].id < since[j].id
<1>1. /\ seq \in Nat /\ history \in Seq(Entries) /\ Len(history) \in Nat
      /\ DOMAIN history = 1..Len(history) /\ Len(history) <= seq
      /\ \A i \in DOMAIN history : history[i].id = seq - Len(history) + i
  BY LenProperties DEF EventsTypeOK, HistoryInv
<1> DEFINE L == Len(history)
           k == IF n < seq - L THEN 0 ELSE n - (seq - L)
           B == {i \in DOMAIN history : history[i].id <= n}
           since == SubSeq(history, k + 1, L)
<1>2. /\ k \in Nat /\ k <= L /\ L \in Nat
      /\ \A i \in 1..L : seq - L + i <= n <=> i <= k
  BY <1>1
<1> HIDE DEF k, L
<1>3. B = 1..k
  <2>1. \A i \in 1..L : history[i].id <= n <=> i <= k
    BY <1>1, <1>2 DEF L
  <2>2. \A i \in 1..k : i \in 1..L /\ i <= k
    BY <1>2
  <2>3. \A i \in 1..L : i <= k => i \in 1..k
    BY <1>2
  <2>4. DOMAIN history = 1..L
    BY <1>1 DEF L
  <2> QED
    BY <2>1, <2>2, <2>3, <2>4
<1>4. Cardinality(B) = k
  <2> HIDE DEF B
  <2>1. Cardinality(1..k) = IF 1 > k THEN 0 ELSE k - 1 + 1
    BY <1>2, FS_Interval
  <2> QED
    BY <1>2, <1>3, <2>1
<1>5. Since(n) = since
  BY <1>4 DEF Since, L
<1> HIDE DEF B
<1>6. /\ since \in Seq(Entries) /\ DOMAIN since = 1..(L - k)
      /\ \A i \in 1..(L - k) : since[i] = history[k + i]
  <2>1. \A i \in (k + 1)..L : history[i] \in Entries
    <3>1. \A i \in (k + 1)..L : i \in DOMAIN history
      BY <1>1, <1>2 DEF L
    <3> QED
      BY <1>1, <3>1, ElementOfSeq DEF L
  <2>2. k + 1 \in Int /\ L \in Int
    BY <1>2
  <2>3. /\ since \in Seq(Entries) /\ Len(since) = IF k + 1 <= L THEN L - (k + 1) + 1 ELSE 0
        /\ \A i \in 1..(L - (k + 1) + 1) : since[i] = history[(k + 1) + i - 1]
    BY <2>1, <2>2, SubSeqProperties
  <2>4. L - (k + 1) + 1 = L - k /\ (IF k + 1 <= L THEN L - (k + 1) + 1 ELSE 0) = L - k
        /\ \A i \in 1..(L - k) : (k + 1) + i - 1 = k + i
    BY <1>2
  <2> HIDE DEF since
  <2>5. DOMAIN since = 1..Len(since)
    BY <2>3, LenProperties
  <2> QED
    BY <2>3, <2>4, <2>5
<1> HIDE DEF since
<1>7. \A i \in 1..(L - k) : k + i \in DOMAIN history /\ since[i].id = seq - L + (k + i)
  <2>1. \A i \in 1..(L - k) : k + i \in 1..L
    BY <1>2
  <2>2. \A i \in 1..L : i \in DOMAIN history /\ history[i].id = seq - L + i
    BY <1>1 DEF L
  <2> QED
    BY <1>6, <2>1, <2>2
<1>8. \A i \in 1..(L - k) : n < seq - L + (k + i) /\ seq - L + (k + i) <= seq
  <2> SUFFICES ASSUME NEW i \in 1..(L - k)
               PROVE  n < seq - L + (k + i) /\ seq - L + (k + i) <= seq
    OBVIOUS
  <2>1. k + i \in 1..L /\ ~(k + i <= k)
    BY <1>2
  <2>2. ~(seq - L + (k + i) <= n)
    BY <1>2, <2>1
  <2> QED
    BY <1>1, <1>2, <2>1, <2>2
<1>9. \A i, j \in 1..(L - k) : i < j => seq - L + (k + i) < seq - L + (k + j)
  BY <1>1, <1>2
<1> QED
  BY <1>5, <1>6, <1>7, <1>8, <1>9

LEMMA ConnectStep ==
  ASSUME EventsInv, NEW c \in Clients, Connect(c)
  PROVE  EventsInv'
<1> DEFINE C == [pc : {"off", "replay", "live"}, queue : Seq(Entries), last : Nat,
                 view : SUBSET Alarms, gap : Nat, lost : BOOLEAN]
           last == client[c].last
           since == Since(last)
           lost == client[c].lost \/ \E n \in (last + 1)..seq : \A ev \in Range(since) : ev.id # n
           d == [client[c] EXCEPT !.pc = "replay", !.queue = since, !.gap = 0, !.lost = lost]
<1>1. /\ client \in [Clients -> C] /\ client[c] \in C /\ seq \in Nat
      /\ history \in Seq(Entries) /\ EventsTypeOK /\ HistoryInv
  BY DEF EventsInv, EventsTypeOK
<1>2. client[c].pc = "off" /\ UNCHANGED <<table, emitting, seq, history>>
  BY DEF Connect
<1>3. client' = [client EXCEPT ![c] = d]
  <2>1. PICK l \in BOOLEAN : l = lost
    BY <1>1
  <2>2. client' = [client EXCEPT ![c].pc = "replay", ![c].queue = since, ![c].gap = 0, ![c].lost = l]
    BY <2>1 DEF Connect
  <2> HIDE DEF lost, since
  <2> QED
    BY <1>1, <2>1, <2>2
<1>5. client[c].last <= seq \/ client[c].lost
  BY DEF EventsInv, QueueInv
<1>6. since \in Seq(Entries)
  <2>1. Since(last) = SubSeq(history, Cardinality({i \in DOMAIN history : history[i].id <= last}) + 1, Len(history))
    BY DEF Since
  <2> DEFINE k == Cardinality({i \in DOMAIN history : history[i].id <= last})
  <2>2. k \in Nat
    <3>1. IsFiniteSet(DOMAIN history)
      BY <1>1, FS_Interval, LenProperties
    <3>2. IsFiniteSet({i \in DOMAIN history : history[i].id <= last})
      BY <3>1, FS_Subset
    <3> QED
      BY <3>2, FS_CardinalityType
  <2> HIDE DEF k
  <2>3. k + 1 \in Int /\ Len(history) \in Int /\ \A i \in (k + 1)..Len(history) : history[i] \in Entries
    <3>1. Len(history) \in Nat /\ DOMAIN history = 1..Len(history)
      BY <1>1, LenProperties
    <3>2. \A i \in (k + 1)..Len(history) : i \in DOMAIN history
      BY <2>2, <3>1
    <3> QED
      BY <1>1, <2>2, <3>1, <3>2, ElementOfSeq
  <2>4. SubSeq(history, k + 1, Len(history)) \in Seq(Entries)
    BY <2>3, SubSeqProperties
  <2> QED
    BY <2>1, <2>4 DEF k
<1>7. /\ d \in C /\ d.pc = "replay" /\ d.queue = since /\ d.last = last
      /\ d.view = client[c].view /\ d.gap = 0 /\ d.lost = lost
  <2>1. lost \in BOOLEAN
    BY <1>1
  <2> DEFINE old == client[c]
             d1 == [old EXCEPT !.pc = "replay"]
             d2 == [d1 EXCEPT !.queue = since]
             d3 == [d2 EXCEPT !.gap = 0]
             d4 == [d3 EXCEPT !.lost = lost]
  <2> HIDE DEF lost, since
  <2>2. old \in C
    BY <1>1
  <2>3. d = d4
    OBVIOUS
  <2> HIDE DEF old, d
  <2>4. d1 \in C /\ d1.pc = "replay" /\ d1.last = old.last /\ d1.view = old.view
    BY <2>2
  <2> HIDE DEF d1
  <2>5. d2 \in C /\ d2.pc = "replay" /\ d2.last = old.last /\ d2.view = old.view /\ d2.queue = since
    BY <1>6, <2>4
  <2> HIDE DEF d2
  <2>6. /\ d3 \in C /\ d3.pc = "replay" /\ d3.last = old.last /\ d3.view = old.view
        /\ d3.queue = since /\ d3.gap = 0
    BY <2>5
  <2> HIDE DEF d3
  <2>7. /\ d4 \in C /\ d4.pc = "replay" /\ d4.last = old.last /\ d4.view = old.view
        /\ d4.queue = since /\ d4.gap = 0 /\ d4.lost = lost
    BY <2>1, <2>6
  <2> HIDE DEF d4
  <2> QED
    BY <2>3, <2>7 DEF old
<1> HIDE DEF d
<1>8. client'[c] = d
  BY <1>1, <1>3
<1>9. ASSUME ~d.lost PROVE QueueInv(c)' /\ ToldInv(c)'
  <2>1. /\ ~client[c].lost /\ QueueInv(c) /\ ToldInv(c) /\ last <= seq
        /\ \A n \in (last + 1)..seq : \E ev \in Range(since) : ev.id = n
    BY <1>7, <1>9 DEF EventsInv, QueueInv
  <2>2. /\ \A i \in DOMAIN since : /\ last < since[i].id /\ since[i].id <= seq
                                  /\ \E j \in DOMAIN history : since[i] = history[j]
        /\ \A i, j \in DOMAIN since : i < j => since[i].id < since[j].id
    BY <1>1, <2>1, SinceFacts
  <2>3. \A i, j \in DOMAIN history : history[i].id = history[j].id => history[i] = history[j]
    <3>1. Len(history) \in Nat /\ DOMAIN history = 1..Len(history)
      BY <1>1, LenProperties
    <3>2. ASSUME NEW i \in DOMAIN history, NEW j \in DOMAIN history, history[i].id = history[j].id
          PROVE  i = j
      <4>1. seq - Len(history) + i = seq - Len(history) + j
        BY <1>1, <3>2 DEF HistoryInv
      <4> QED
        BY <1>1, <3>1, <4>1
    <3> QED
      BY <3>2
  <2>4. \A i \in DOMAIN since, j \in DOMAIN history : since[i].id = history[j].id => since[i] = history[j]
    BY <2>2, <2>3
  <2>5. \A n \in (last + 1)..seq : \E i \in DOMAIN since : since[i].id = n
    BY <2>1 DEF Range
  <2>6. /\ client'[c].queue = since /\ client'[c].last = last /\ client'[c].gap = 0
        /\ client'[c].pc = "replay" /\ client'[c].view = client[c].view
    BY <1>7, <1>8
  <2>7. last = 0 => client[c].view = {}
    BY <2>1 DEF QueueInv
  <2>8. QueueInv(c)'
    <3> HIDE DEF since, last
    <3> QED
      BY <1>2, <2>1, <2>2, <2>4, <2>5, <2>6, <2>7 DEF QueueInv
  <2>9. Sent(c)' = Sent(c)
    <3>1. client[c].queue = <<>>
      BY <1>2, <2>1 DEF QueueInv
    <3>2. Range(client[c].queue) = {}
      BY <3>1 DEF Range
    <3>3. Range(since) \subseteq Range(history)
      <4> HIDE DEF since
      <4> QED
        BY <2>2 DEF Range
    <3> HIDE DEF since
    <3> QED
      BY <1>2, <2>6, <3>2, <3>3 DEF Sent
  <2>10. (Complete(c)' <=> Complete(c)) /\ Active' = Active
    BY <1>2, <2>6, <2>9 DEF Complete, Active
  <2>11. ASSUME Complete(c), NEW a \in Alarms, \A i \in DOMAIN emitting : ~About(emitting[i], a)
        PROVE  Says(Sent(c)', client'[c].view, a, Active')
    <3>1. Says(Sent(c), client[c].view, a, Active)
      BY <2>1, <2>11 DEF ToldInv
    <3> QED
      BY <2>6, <2>9, <2>10, <3>1
  <2> QED
    BY <1>2, <2>8, <2>10, <2>11 DEF ToldInv
<1>10. d.pc # "live"
  BY <1>7
<1> QED
  BY <1>2, <1>3, <1>7, <1>9, <1>10, OneClient

LEMMA SubscribeStep ==
  ASSUME EventsInv, NEW c \in Clients, Subscribe(c)
  PROVE  EventsInv'
<1> DEFINE C == [pc : {"off", "replay", "live"}, queue : Seq(Entries), last : Nat,
                 view : SUBSET Alarms, gap : Nat, lost : BOOLEAN]
           d == [client[c] EXCEPT !.pc = "live"]
<1>1. client \in [Clients -> C] /\ client[c] \in C
  BY DEF EventsInv, EventsTypeOK
<1>2. /\ client[c].pc = "replay" /\ client[c].queue = <<>> /\ UNCHANGED <<table, emitting, seq, history>>
      /\ client' = [client EXCEPT ![c] = d]
  BY <1>1 DEF Subscribe
<1>3. /\ d \in C /\ d.pc = "live" /\ d.queue = client[c].queue /\ d.last = client[c].last
      /\ d.view = client[c].view /\ d.gap = client[c].gap /\ d.lost = client[c].lost
  BY <1>1
<1> HIDE DEF d
<1>4. client'[c] = d
  BY <1>1, <1>2
<1>5. Len(d.queue) <= SubBuffer
  <2>1. SubBuffer \in Nat /\ d.queue = <<>>
    BY <1>2, <1>3, EventsAssumption
  <2> QED
    BY <2>1
<1>6. ASSUME ~d.lost PROVE QueueInv(c)' /\ ToldInv(c)'
  <2>1. QueueInv(c) /\ ToldInv(c)
    BY <1>3, <1>6 DEF EventsInv
  <2>2. QueueInv(c)'
    BY <1>2, <1>3, <1>4, <2>1 DEF QueueInv
  <2>3. Sent(c)' = Sent(c)
    BY <1>2, <1>3, <1>4 DEF Sent
  <2>4. (Complete(c)' <=> Complete(c)) /\ Active' = Active
    BY <1>2, <1>3, <1>4, <2>3 DEF Complete, Active
  <2>5. ASSUME Complete(c), NEW a \in Alarms, \A i \in DOMAIN emitting : ~About(emitting[i], a)
        PROVE  Says(Sent(c)', client'[c].view, a, Active')
    <3>1. Says(Sent(c), client[c].view, a, Active)
      BY <2>1, <2>5 DEF ToldInv
    <3> QED
      BY <1>3, <1>4, <2>3, <2>4, <3>1
  <2> QED
    BY <1>2, <2>2, <2>4, <2>5 DEF ToldInv
<1> QED
  BY <1>2, <1>3, <1>5, <1>6, OneClient

LEMMA DisconnectStep ==
  ASSUME EventsInv, NEW c \in Clients, Disconnect(c)
  PROVE  EventsInv'
<1> DEFINE C == [pc : {"off", "replay", "live"}, queue : Seq(Entries), last : Nat,
                 view : SUBSET Alarms, gap : Nat, lost : BOOLEAN]
           d == [client[c] EXCEPT !.pc = "off", !.queue = <<>>, !.gap = 0]
           last == client[c].last
<1>1. client \in [Clients -> C] /\ client[c] \in C /\ EventsTypeOK /\ HistoryInv
  BY DEF EventsInv, EventsTypeOK
<1>2. /\ UNCHANGED <<table, emitting, seq, history>>
      /\ client' = [client EXCEPT ![c] = d]
  BY <1>1 DEF Disconnect
<1>3. /\ d \in C /\ d.pc = "off" /\ d.queue = <<>> /\ d.last = client[c].last
      /\ d.view = client[c].view /\ d.gap = 0 /\ d.lost = client[c].lost
  <2> DEFINE old == client[c]
             d1 == [old EXCEPT !.pc = "off"]
             d2 == [d1 EXCEPT !.queue = <<>>]
             d3 == [d2 EXCEPT !.gap = 0]
  <2>1. old \in C /\ d = d3 /\ <<>> \in Seq(Entries)
    BY <1>1
  <2> HIDE DEF old, d
  <2>2. d1 \in C /\ d1.pc = "off" /\ d1.last = old.last /\ d1.view = old.view /\ d1.lost = old.lost
    BY <2>1
  <2> HIDE DEF d1
  <2>3. /\ d2 \in C /\ d2.pc = "off" /\ d2.last = old.last /\ d2.view = old.view /\ d2.lost = old.lost
        /\ d2.queue = <<>>
    BY <2>1, <2>2
  <2> HIDE DEF d2
  <2>4. /\ d3 \in C /\ d3.pc = "off" /\ d3.last = old.last /\ d3.view = old.view /\ d3.lost = old.lost
        /\ d3.queue = <<>> /\ d3.gap = 0
    BY <2>3
  <2> HIDE DEF d3
  <2> QED
    BY <2>1, <2>4 DEF old
<1> HIDE DEF d
<1>4. client'[c] = d
  BY <1>1, <1>2
<1>5. ASSUME ~d.lost PROVE QueueInv(c)' /\ ToldInv(c)'
  <2>1. QueueInv(c) /\ ToldInv(c)
    BY <1>3, <1>5 DEF EventsInv
  <2>2. QueueInv(c)'
    BY <1>2, <1>3, <1>4, <2>1 DEF QueueInv
  <2>3. Sent(c)' \subseteq Sent(c)
    BY <1>2, <1>3, <1>4 DEF Sent, Range
  <2>4. /\ Sent(c) \in SUBSET Entries
        /\ \A x \in Sent(c) : x.id \in Nat /\ last < x.id /\ x.id <= seq
        /\ \A x, y \in Sent(c) : x.id = y.id => x = y
    BY <1>1, <2>1, SentFacts
  <2>5. seq \in Nat /\ last \in Nat
    BY <1>1 DEF EventsTypeOK
  <2>6. ASSUME Complete(c)' PROVE Complete(c) /\ Sent(c)' = Sent(c)
    <3>1. \A n \in (last + 1)..seq : \E x \in Sent(c)' : x.id = n
      BY <1>2, <1>3, <1>4, <2>6 DEF Complete
    <3>2. Complete(c)
      BY <2>3, <3>1 DEF Complete
    <3>3. ASSUME NEW x \in Sent(c) PROVE x \in Sent(c)'
      <4>1. x.id \in (last + 1)..seq
        BY <2>4, <2>5
      <4>2. PICK y \in Sent(c)' : y.id = x.id
        BY <3>1, <4>1
      <4> QED
        BY <2>3, <2>4, <4>2
    <3> QED
      BY <2>3, <3>2, <3>3
  <2>7. Active' = Active
    BY <1>2 DEF Active
  <2>8. ASSUME Complete(c)', NEW a \in Alarms, \A i \in DOMAIN emitting : ~About(emitting[i], a)
        PROVE  Says(Sent(c)', client'[c].view, a, Active')
    <3>1. Says(Sent(c), client[c].view, a, Active)
      BY <2>1, <2>6, <2>8 DEF ToldInv
    <3> QED
      BY <1>3, <1>4, <2>6, <2>7, <2>8, <3>1
  <2> QED
    BY <1>2, <2>2, <2>8 DEF ToldInv
<1> QED
  BY <1>2, <1>3, <1>5, OneClient

\* An event that is read without a hole before it is the next one.
LEMMA DeliverStep ==
  ASSUME EventsInv, NEW c \in Clients, Deliver(c)
  PROVE  EventsInv'
<1> DEFINE C == [pc : {"off", "replay", "live"}, queue : Seq(Entries), last : Nat,
                 view : SUBSET Alarms, gap : Nat, lost : BOOLEAN]
           q == client[c].queue  last == client[c].last  gap == client[c].gap
           ev == Head(q)
           rest == Tail(q)
           lost == client[c].lost \/ (gap # 0 /\ gap < ev.id)
           view == CASE ev.type = "alarm-raised" -> client[c].view \cup {ev.alarm}
                     [] ev.type = "alarm-resolved" -> client[c].view \ {ev.alarm}
                     [] OTHER -> client[c].view
           d == [client[c] EXCEPT !.queue = rest, !.last = ev.id, !.lost = lost, !.view = view]
<1>1. /\ client \in [Clients -> C] /\ client[c] \in C /\ EventsTypeOK /\ HistoryInv
      /\ seq \in Nat /\ last \in Nat /\ gap \in Nat /\ q \in Seq(Entries)
  BY DEF EventsInv, EventsTypeOK
<1>2. q # <<>> /\ UNCHANGED <<table, emitting, seq, history>>
  BY DEF Deliver
<1>3. client' = [client EXCEPT ![c] = d]
  <2>1. PICK l \in BOOLEAN : l = lost
    BY <1>1
  <2>2. client' = [client EXCEPT ![c].queue = rest, ![c].last = ev.id, ![c].lost = l, ![c].view = view]
    BY <2>1 DEF Deliver
  <2> HIDE DEF lost, rest, view, ev
  <2> QED
    BY <1>1, <2>1, <2>2
<1>4. /\ ev \in Entries /\ ev = q[1] /\ rest \in Seq(Entries)
      /\ Len(q) \in Nat /\ Len(q) # 0 /\ DOMAIN q = 1..Len(q)
      /\ DOMAIN rest = 1..(Len(q) - 1) /\ Len(rest) = Len(q) - 1
      /\ \A i \in 1..(Len(q) - 1) : rest[i] = q[i + 1]
  <2> HIDE DEF q
  <2> QED
    BY <1>1, <1>2, HeadTailProperties, LenProperties, EmptySeq
<1>5. ev.id \in Nat /\ (ev.type # "other" => ev.alarm \in Alarms)
      /\ ev.type \in {"alarm-raised", "alarm-resolved", "other"}
  <2> HIDE DEF ev
  <2> QED
    BY <1>4, EntryFields
<1>6. /\ d \in C /\ d.pc = client[c].pc /\ d.queue = rest /\ d.last = ev.id
      /\ d.view = view /\ d.gap = gap /\ d.lost = lost
  <2>1. lost \in BOOLEAN
    BY <1>1
  <2>2. view \in SUBSET Alarms
    <3> DEFINE w == client[c].view
    <3>1. w \in SUBSET Alarms
      BY <1>1
    <3> DEFINE x == ev
    <3>2. x.type # "other" => x.alarm \in Alarms
      BY <1>5
    <3>3. x.type \in {"alarm-raised", "alarm-resolved", "other"}
      BY <1>5
    <3>4. view = CASE x.type = "alarm-raised" -> w \cup {x.alarm}
                   [] x.type = "alarm-resolved" -> w \ {x.alarm}
                   [] OTHER -> w
      OBVIOUS
    <3> HIDE DEF w, x, view
    <3>5. CASE x.type = "alarm-raised"
      BY <3>1, <3>2, <3>4, <3>5
    <3>6. CASE x.type = "alarm-resolved"
      BY <3>1, <3>4, <3>6
    <3>7. CASE x.type = "other"
      BY <3>1, <3>4, <3>7
    <3> QED
      BY <3>3, <3>5, <3>6, <3>7
  <2> DEFINE old == client[c]
             d1 == [old EXCEPT !.queue = rest]
             d2 == [d1 EXCEPT !.last = ev.id]
             d3 == [d2 EXCEPT !.lost = lost]
             d4 == [d3 EXCEPT !.view = view]
  <2> HIDE DEF lost, view, ev, rest
  <2>3. old \in C /\ d = d4 /\ old.gap = gap
    BY <1>1
  <2> HIDE DEF old, d, gap, q, last
  <2>4. d1 \in C /\ d1.pc = old.pc /\ d1.gap = old.gap /\ d1.queue = rest
    BY <1>4, <2>3
  <2> HIDE DEF d1
  <2>5. d2 \in C /\ d2.pc = old.pc /\ d2.gap = old.gap /\ d2.queue = rest /\ d2.last = ev.id
    BY <1>5, <2>4
  <2> HIDE DEF d2
  <2>6. /\ d3 \in C /\ d3.pc = old.pc /\ d3.gap = old.gap /\ d3.queue = rest /\ d3.last = ev.id
        /\ d3.lost = lost
    BY <2>1, <2>5
  <2> HIDE DEF d3
  <2>7. /\ d4 \in C /\ d4.pc = old.pc /\ d4.gap = old.gap /\ d4.queue = rest /\ d4.last = ev.id
        /\ d4.lost = lost /\ d4.view = view
    BY <2>2, <2>6
  <2> HIDE DEF d4
  <2> QED
    BY <2>3, <2>7 DEF old
<1> HIDE DEF d
<1>7. client'[c] = d
  BY <1>1, <1>3
<1>8. ASSUME ~d.lost PROVE QueueInv(c)' /\ ToldInv(c)'
  <2>1. ~client[c].lost /\ QueueInv(c) /\ ToldInv(c) /\ ~(gap # 0 /\ gap < ev.id)
    BY <1>6, <1>8 DEF EventsInv
  <2>2. /\ last <= seq
        /\ client[c].pc # "off"
        /\ \A i \in DOMAIN q : last < q[i].id /\ q[i].id <= seq
        /\ \A i, j \in DOMAIN q : i < j => q[i].id < q[j].id
        /\ \A i \in DOMAIN q, j \in DOMAIN history : q[i].id = history[j].id => q[i] = history[j]
        /\ \A n \in (last + 1)..seq : gap = 0 \/ n < gap => \E i \in DOMAIN q : q[i].id = n
        /\ gap # 0 => last < gap /\ gap <= seq /\ \A i \in DOMAIN q : q[i].id # gap
    BY <1>2, <2>1 DEF QueueInv
  <2>3. /\ Sent(c) \in SUBSET Entries
        /\ \A x \in Sent(c) : x.id \in Nat /\ last < x.id /\ x.id <= seq
        /\ \A x, y \in Sent(c) : x.id = y.id => x = y
    BY <1>1, <2>1, SentFacts
  <2>4. ev \in Sent(c)
    <3>1. ev \in Range(q) /\ last < ev.id
      BY <1>4, <2>2 DEF Range
    <3> QED
      BY <3>1 DEF Sent
  <2> HIDE DEF ev, rest, q, last, gap, view, lost
  <2>5. \A i \in DOMAIN q : q[i] \in Entries /\ q[i].id \in Nat
    BY <1>1, <1>4, EntryFields, ElementOfSeq
  <2>6. \A i \in DOMAIN q : ev.id <= q[i].id
    <3>1. 1 \in DOMAIN q /\ \A i \in DOMAIN q : i = 1 \/ 1 < i
      BY <1>4
    <3> QED
      BY <1>4, <1>5, <2>2, <2>5, <3>1, SMTT(30)
  <2>7. ev.id = last + 1
    <3>1. 1 \in DOMAIN q /\ last < ev.id /\ ev.id <= seq
      BY <1>4, <2>2
    <3>2. ASSUME last + 1 < ev.id PROVE FALSE
      <4>1. last + 1 \in (last + 1)..seq
        BY <1>1, <1>5, <3>1, <3>2
      <4>2. gap = 0 \/ last + 1 < gap
        BY <1>1, <1>4, <1>5, <2>1, <2>2, <3>1, <3>2
      <4>3. PICK i \in DOMAIN q : q[i].id = last + 1
        BY <2>2, <4>1, <4>2
      <4> QED
        BY <1>1, <1>5, <2>6, <3>2, <4>3
    <3> QED
      BY <1>1, <1>5, <3>1, <3>2
  <2>8. /\ client'[c].queue = rest /\ client'[c].last = ev.id /\ client'[c].view = view
        /\ client'[c].gap = gap /\ client'[c].pc = client[c].pc
    BY <1>6, <1>7
  <2>9. /\ \A i \in DOMAIN rest : i + 1 \in DOMAIN q /\ rest[i] = q[i + 1]
        /\ \A i \in DOMAIN q : i = 1 \/ (i - 1 \in DOMAIN rest /\ rest[i - 1] = q[i])
        /\ 1 \in DOMAIN q /\ \A i \in DOMAIN rest : 1 < i + 1
        /\ \A i, j \in DOMAIN rest : i < j => i + 1 < j + 1
    BY <1>4
  <2>10. QueueInv(c)'
    <3>1. ev.id <= seq /\ ev.id # 0
      <4>1. ev.id <= seq
        BY <1>4, <2>2, <2>9
      <4>2. ev.id # 0
        BY <1>1, <2>7
      <4> QED
        BY <4>1, <4>2
    <3>2. \A i \in DOMAIN rest : ev.id < rest[i].id /\ rest[i].id <= seq
      BY <1>4, <2>2, <2>9
    <3>3. \A i, j \in DOMAIN rest : i < j => rest[i].id < rest[j].id
      BY <2>2, <2>9
    <3>4. \A i \in DOMAIN rest, j \in DOMAIN history : rest[i].id = history[j].id => rest[i] = history[j]
      BY <2>2, <2>9
    <3>5. ASSUME NEW n \in (ev.id + 1)..seq, gap = 0 \/ n < gap
          PROVE  \E i \in DOMAIN rest : rest[i].id = n
      <4>1. n \in (last + 1)..seq /\ n # ev.id
        BY <1>1, <1>5, <2>7
      <4>2. PICK i \in DOMAIN q : q[i].id = n
        BY <2>2, <3>5, <4>1
      <4> QED
        BY <1>4, <2>9, <4>1, <4>2
    <3>6. gap # 0 => ev.id < gap /\ gap <= seq /\ \A i \in DOMAIN rest : rest[i].id # gap
      <4>1. gap # 0 => ev.id # gap
        BY <1>4, <2>2, <2>9
      <4>2. gap # 0 => ev.id < gap
        BY <1>1, <1>5, <2>1, <4>1
      <4> QED
        BY <2>2, <2>9, <4>2
    <3> QED
      BY <1>2, <2>2, <2>8, <3>1, <3>2, <3>3, <3>4, <3>5, <3>6 DEF QueueInv
  <2>11. Sent(c)' = {x \in Sent(c) : ev.id < x.id}
    <3>1. /\ Range(rest) \subseteq Range(q)
          /\ \A x \in Range(q) : x = ev \/ x \in Range(rest)
      BY <1>4, <2>9 DEF Range
    <3>2. Sent(c)' = {x \in Range(history) \cup Range(rest) : ev.id < x.id}
      BY <1>2, <2>8 DEF Sent
    <3>3. Sent(c) = {x \in Range(history) \cup Range(q) : last < x.id}
      BY DEF Sent, q, last
    <3>4. \A x \in Range(history) \cup Range(rest) : x.id \in Nat
      <4>1. \A x \in Range(history) : x \in Entries
        <5>1. history \in Seq(Entries) /\ DOMAIN history = 1..Len(history)
          BY <1>1, LenProperties DEF EventsTypeOK
        <5> QED
          BY <5>1, ElementOfSeq DEF Range
      <4>2. \A x \in Range(q) : x \in Entries
        BY <2>5 DEF Range
      <4> QED
        BY <3>1, <4>1, <4>2, EntryFields
    <3>5. \A x \in Range(history) \cup Range(rest) : ev.id < x.id => last < x.id
      BY <1>1, <1>5, <2>7, <3>4
    <3>6. ~(ev.id < ev.id)
      BY <1>5
    <3> QED
      BY <3>1, <3>2, <3>3, <3>5, <3>6
  <2>12. ASSUME Complete(c)' PROVE Complete(c)
    <3>1. \A n \in (ev.id + 1)..seq : \E x \in Sent(c)' : x.id = n
      BY <1>2, <2>8, <2>12 DEF Complete
    <3>2. \A n \in (last + 1)..seq : n = ev.id \/ n \in (ev.id + 1)..seq
      BY <1>1, <1>5, <2>7
    <3>3. \A n \in (last + 1)..seq : \E x \in Sent(c) : x.id = n
      BY <2>4, <2>11, <3>1, <3>2
    <3> QED
      BY <3>3 DEF Complete, last
  <2>13. Active' = Active
    BY <1>2 DEF Active
  <2>14. ASSUME Complete(c)', NEW a \in Alarms, \A i \in DOMAIN emitting : ~About(emitting[i], a)
        PROVE  Says(Sent(c)', client'[c].view, a, Active')
    <3> DEFINE E == Sent(c)  seen == client[c].view  active == Active
    <3>1. Says(E, seen, a, active)
      BY <2>1, <2>12, <2>14 DEF ToldInv
    <3>2. \A x \in E : ev.id <= x.id
      BY <1>1, <1>5, <2>3, <2>7
    <3>3. E \in SUBSET Entries /\ ev \in E /\ \A x, y \in E : x.id = y.id => x = y
      BY <2>3, <2>4
    <3>4. view = CASE ev.type = "alarm-raised" -> seen \cup {ev.alarm}
                   [] ev.type = "alarm-resolved" -> seen \ {ev.alarm}
                   [] OTHER -> seen
      BY DEF view
    <3> HIDE DEF E, seen, active
    <3>5. Says({x \in E : ev.id < x.id},
               CASE ev.type = "alarm-raised" -> seen \cup {ev.alarm}
                 [] ev.type = "alarm-resolved" -> seen \ {ev.alarm}
                 [] OTHER -> seen,
               a, active)
      BY <3>1, <3>2, <3>3, SaysRead
    <3>6. Says({x \in E : ev.id < x.id}, view, a, active)
      BY <3>4, <3>5
    <3> QED
      BY <2>8, <2>11, <2>13, <3>6 DEF E, active
  <2> QED
    BY <1>2, <2>10, <2>14 DEF ToldInv
<1>9. d.pc = "live" => Len(d.queue) <= SubBuffer
  <2>1. client[c].pc = "live" => Len(q) <= SubBuffer
    BY <1>1 DEF EventsTypeOK
  <2>2. SubBuffer \in Nat
    BY EventsAssumption
  <2> HIDE DEF q, rest
  <2> QED
    BY <1>4, <1>6, <2>1, <2>2
<1> QED
  BY <1>2, <1>3, <1>6, <1>8, <1>9, OneClient

LEMMA RestartStep ==
  ASSUME EventsInv, EventsRestart
  PROVE  EventsInv'
<1> DEFINE C == [pc : {"off", "replay", "live"}, queue : Seq(Entries), last : Nat,
                 view : SUBSET Alarms, gap : Nat, lost : BOOLEAN]
           Reset(d) == [d EXCEPT !.pc = "off", !.queue = <<>>, !.gap = 0, !.lost = @ \/ d.last > 0]
<1>1. /\ table' = [a \in Alarms |-> "none"] /\ emitting' = <<>> /\ seq' = 0 /\ history' = <<>>
      /\ client' = [c \in Clients |-> Reset(client[c])]
  BY DEF EventsRestart
<1>2. client \in [Clients -> C]
  BY DEF EventsInv, EventsTypeOK
<1>3. ASSUME NEW d \in C
      PROVE  /\ Reset(d) \in C /\ Reset(d).pc = "off" /\ Reset(d).queue = <<>> /\ Reset(d).gap = 0
             /\ Reset(d).last = d.last /\ Reset(d).view = d.view
             /\ (~Reset(d).lost => ~d.lost /\ d.last = 0)
  <2>1. PICK l \in BOOLEAN : l = (d.lost \/ d.last > 0)
    OBVIOUS
  <2>2. Reset(d) = [d EXCEPT !.pc = "off", !.queue = <<>>, !.gap = 0, !.lost = l]
    BY <2>1
  <2> DEFINE d1 == [d EXCEPT !.pc = "off"]
             d2 == [d1 EXCEPT !.queue = <<>>]
             d3 == [d2 EXCEPT !.gap = 0]
             d4 == [d3 EXCEPT !.lost = l]
  <2>3. Reset(d) = d4 /\ d.last \in Nat /\ <<>> \in Seq(Entries)
    BY <2>2
  <2> HIDE DEF Reset
  <2>4. d1 \in C /\ d1.pc = "off" /\ d1.last = d.last /\ d1.view = d.view
    OBVIOUS
  <2> HIDE DEF d1
  <2>5. d2 \in C /\ d2.pc = "off" /\ d2.last = d.last /\ d2.view = d.view /\ d2.queue = <<>>
    BY <2>3, <2>4
  <2> HIDE DEF d2
  <2>6. d3 \in C /\ d3.pc = "off" /\ d3.last = d.last /\ d3.view = d.view /\ d3.queue = <<>> /\ d3.gap = 0
    BY <2>5
  <2> HIDE DEF d3
  <2>7. /\ d4 \in C /\ d4.pc = "off" /\ d4.last = d.last /\ d4.view = d.view /\ d4.queue = <<>>
        /\ d4.gap = 0 /\ d4.lost = l
    BY <2>1, <2>6
  <2>8. Reset(d).lost = l
    BY <2>3, <2>7
  <2>9. ~l => ~d.lost /\ d.last = 0
    <3>1. ~l => ~(d.lost \/ d.last > 0)
      BY <2>1, Zenon
    <3>2. d.last \in Nat
      BY <2>3
    <3>3. ~(d.last > 0) => d.last = 0
      BY <3>2
    <3> QED
      BY <3>1, <3>3
  <2> HIDE DEF d4, C
  <2> QED
    BY <2>3, <2>7, <2>8, <2>9
<1> HIDE DEF Reset
<1>4. client' \in [Clients -> C] /\ \A c \in Clients : client'[c] = Reset(client[c]) /\ client[c] \in C
  <2> HIDE DEF C
  <2> QED
    BY <1>1, <1>2, <1>3
<1>5. Active' = {}
  BY <1>1 DEF Active
<1>6. EventsTypeOK' /\ StoreInv' /\ HistoryInv'
  <2>1. table' \in [Alarms -> {"none", "active", "resolved"}]
    BY <1>1
  <2>2. emitting' \in Seq(Entries) /\ seq' \in Nat /\ history' \in Seq(Entries) /\ Len(history') <= HistMaxLen
    BY <1>1, EventsAssumption
  <2>3. \A c \in Clients : client'[c].pc # "live"
    BY <1>3, <1>4
  <2>4. EventsTypeOK'
    BY <1>4, <2>1, <2>2, <2>3 DEF EventsTypeOK
  <2> QED
    BY <1>1, <2>4 DEF StoreInv, HistoryInv
<1>7. ASSUME NEW c \in Clients, ~client'[c].lost PROVE QueueInv(c)' /\ ToldInv(c)'
  <2>1. /\ client'[c].pc = "off" /\ client'[c].queue = <<>> /\ client'[c].gap = 0
        /\ client'[c].last = client[c].last /\ client'[c].view = client[c].view
        /\ ~client[c].lost /\ client[c].last = 0
    BY <1>3, <1>4, <1>7
  <2>2. client[c].view = {}
    BY <2>1 DEF EventsInv, QueueInv
  <2>3. QueueInv(c)'
    BY <1>1, <2>1, <2>2 DEF QueueInv
  <2>4. Sent(c)' = {}
    BY <1>1, <2>1 DEF Sent, Range
  <2>5. \A a : Says({}, {}, a, {})
    BY DEF Says
  <2>6. \A a : Says(Sent(c)', client'[c].view, a, Active')
    BY <1>5, <2>1, <2>2, <2>4, <2>5
  <2> QED
    BY <2>3, <2>6 DEF ToldInv
<1> QED
  BY <1>6, <1>7 DEF EventsInv

LEMMA InitStep ==
  ASSUME EventsInit
  PROVE  EventsInv
<1>1. EventsTypeOK
  BY EventsAssumption DEF EventsInit, EventsTypeOK, Off
<1>2. Active = {}
  BY DEF EventsInit, Active
<1>3. StoreInv /\ HistoryInv
  BY DEF EventsInit, StoreInv, HistoryInv
<1>4. ASSUME NEW c \in Clients PROVE QueueInv(c) /\ ToldInv(c)
  <2>1. /\ client[c].queue = <<>> /\ client[c].last = 0 /\ client[c].view = {} /\ client[c].gap = 0
        /\ client[c].pc = "off" /\ seq = 0 /\ history = <<>>
    BY DEF EventsInit, Off
  <2>2. QueueInv(c)
    BY <2>1 DEF QueueInv
  <2>3. Sent(c) = {}
    BY <2>1 DEF Sent, Range
  <2>4. \A a : Says({}, {}, a, {})
    BY DEF Says
  <2>5. \A a : Says(Sent(c), client[c].view, a, Active)
    BY <1>2, <2>1, <2>3, <2>4
  <2> QED
    BY <2>2, <2>5 DEF ToldInv
<1> QED
  BY <1>1, <1>3, <1>4 DEF EventsInv

LEMMA UnchangedStep ==
  ASSUME EventsInv, UNCHANGED eventVars
  PROVE  EventsInv'
<1>1. UNCHANGED <<table, emitting, seq, history, client>>
  BY DEF eventVars
<1>2. EventsTypeOK' /\ StoreInv' /\ HistoryInv' /\ Active' = Active
  BY <1>1 DEF EventsInv, EventsTypeOK, StoreInv, HistoryInv, Active
<1>3. ASSUME NEW c \in Clients PROVE (QueueInv(c)' <=> QueueInv(c)) /\ (ToldInv(c)' <=> ToldInv(c))
  <2>1. QueueInv(c)' <=> QueueInv(c)
    BY <1>1 DEF QueueInv
  <2>2. Sent(c)' = Sent(c)
    BY <1>1 DEF Sent
  <2>3. Complete(c)' <=> Complete(c)
    BY <1>1, <2>2 DEF Complete
  <2> DEFINE S == Sent(c)  v == client[c].view  act == Active  next == Active'
             Quiet(a) == \A i \in DOMAIN emitting : ~About(emitting[i], a)
  <2>4. ToldInv(c) <=> (Complete(c) => \A a \in Alarms : Quiet(a) => Says(S, v, a, act))
    BY DEF ToldInv
  <2>5. ToldInv(c)' <=> (Complete(c)' => \A a \in Alarms : Quiet(a) => Says(S, v, a, next))
    BY <1>1, <2>2 DEF ToldInv
  <2>6. act = next
    BY <1>2
  <2> HIDE DEF S, v, act, next, Quiet
  <2> QED
    BY <2>1, <2>3, <2>4, <2>5, <2>6
<1> QED
  BY <1>1, <1>2, <1>3 DEF EventsInv

-----------------------------------------------------------------------------
(* The theorems *)

\* A step of the daemon is a step of the events, or leaves them alone.
LEMMA NextStep ==
  ASSUME EventsInv, [Next]_vars
  PROVE  EventsInv'
<1>1. CASE UNCHANGED vars
  BY <1>1, UnchangedStep DEF vars, eventVars
<1>2. CASE LoginAttempt \/ TimePasses \/ NewRequest \/ EngineCall \/ SessionEnds
  <2>1. UNCHANGED eventVars
    BY <1>2 DEF LoginAttempt, TimePasses, NewRequest, EngineCall, SessionEnds, eventVars
  <2> QED
    BY <2>1, UnchangedStep
<1>3. CASE Commit
  <2>1. PublishOther \/ UNCHANGED eventVars
    BY <1>3 DEF Commit
  <2> QED
    BY <2>1, OtherStep, UnchangedStep
<1>4. CASE AlarmChange
  <2>1. \/ \E a \in Alarms : Raise(a) \/ Resolve(a)
        \/ \E s \in {Scope[a] : a \in Alarms} : \E F \in SUBSET Alarms : Sync(s, F)
        \/ \E S \in SUBSET Alarms : Clear(S)
    BY <1>4 DEF AlarmChange
  <2> QED
    BY <2>1, TableStep
<1>5. CASE Notify
  BY <1>5, EmitStep DEF Notify
<1>6. CASE OtherEvent
  BY <1>6, OtherStep DEF OtherEvent
<1>7. CASE Stream
  <2>1. PICK c \in Clients : Connect(c) \/ Disconnect(c) \/ Subscribe(c) \/ Deliver(c)
    BY <1>7 DEF Stream
  <2> QED
    BY <2>1, ConnectStep, DisconnectStep, SubscribeStep, DeliverStep
<1>8. CASE Restart
  BY <1>8, RestartStep DEF Restart
<1> QED
  BY <1>1, <1>2, <1>3, <1>4, <1>5, <1>6, <1>7, <1>8 DEF Next

\* The queue of a client that lost nothing is ordered and without a hole up to
\* the first event it missed, and what it may yet read leads its view to the
\* table of the alarm store (bus.go, api/events.go).
THEOREM EventsInductive == Spec => []EventsInv
<1>1. Init => EventsInv
  BY InitStep DEF Init
<1>2. EventsInv /\ [Next]_vars => EventsInv'
  BY NextStep
<1> QED
  BY <1>1, <1>2, PTL DEF Spec

\* The variables of the events have their types in every behaviour of the API.
THEOREM EventsTypeCorrect == Spec => []EventsTypeOK
<1>1. EventsInv => EventsTypeOK
  BY DEF EventsInv
<1> QED
  BY <1>1, EventsInductive, PTL

\* A connected client that has read everything and missed nothing for a reason
\* the code names holds exactly the active alarms, whatever raised, resolved or
\* synchronised them and however often it connected again (alarm.go, bus.go,
\* the replay and the live events of handleEvents).
THEOREM ViewIsTrue == Spec => []ViewTrue
<1>1. ASSUME EventsInv PROVE ViewTrue
  <2> SUFFICES ASSUME NEW c \in Clients, client[c].pc = "live", client[c].queue = <<>>,
                      emitting = <<>>, client[c].gap = 0, ~client[c].lost
               PROVE  client[c].view = Active
    BY DEF ViewTrue
  <2>1. /\ QueueInv(c) /\ ToldInv(c) /\ EventsTypeOK /\ HistoryInv
        /\ seq \in Nat /\ client[c].last \in Nat /\ client[c].view \subseteq Alarms
    BY <1>1 DEF EventsInv, EventsTypeOK
  <2>2. \A n \in (client[c].last + 1)..seq : FALSE
    BY <2>1 DEF QueueInv
  <2>3. Sent(c) = {}
    <3>1. \A x \in Sent(c) : x.id \in Nat /\ client[c].last < x.id /\ x.id <= seq
      BY <2>1, SentFacts
    <3>2. \A x \in Sent(c) : x.id \in (client[c].last + 1)..seq
      BY <2>1, <3>1
    <3> QED
      BY <2>2, <3>2
  <2>4. Complete(c)
    BY <2>2 DEF Complete
  <2>5. \A a \in Alarms : Says({}, client[c].view, a, Active)
    BY <2>1, <2>3, <2>4 DEF ToldInv
  <2>6. \A a \in Alarms : a \in client[c].view <=> a \in Active
    BY <2>5 DEF Says
  <2> QED
    BY <2>1, <2>6 DEF Active
<1> QED
  BY <1>1, EventsInductive, PTL
=============================================================================

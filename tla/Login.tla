------------------------------- MODULE Login -------------------------------
(***************************************************************************)
(* Login and sessions (login, logout, admin in internal/server/server.go):  *)
(* a login sweeps the tables and counts its attempt under Server.mu, leaves *)
(* the lock while bcrypt compares the password, and takes it again to open  *)
(* the session. loginSlot admits one login at a time to all of this.        *)
(*                                                                         *)
(* Time passes in units (one minute, say) and is kept relative: an entry    *)
(* holds what is left of it, and an entry with nothing left stays in its    *)
(* table until the next login sweeps it. Both tables live in memory only.   *)
(***************************************************************************)
EXTENDS Integers, FiniteSets

CONSTANTS
    Ip,             \* addresses that log in
    Token,          \* session tokens; a free one stands for a new rand.Text()
    MaxTries,       \* attempts of one address (10)
    MaxAttempts,    \* size of the table of attempts (10000)
    MaxSessions,    \* size of the table of sessions (1000)
    Window,         \* how long attempts are remembered (10 minutes)
    Life,           \* how long a session lasts (24 hours)
    MaxVerify       \* bound: time one comparison may take

ASSUME LoginAssumption ==
    /\ IsFiniteSet(Ip) /\ IsFiniteSet(Token)
    /\ MaxTries \in Nat \ {0}
    /\ MaxAttempts \in Nat \ {0} /\ MaxSessions \in Nat \ {0}
    /\ Window \in Nat \ {0}
    /\ MaxVerify \in Nat /\ Life \in Nat /\ MaxVerify < Life

VARIABLES
    attempts,   \* Server.attempts: [count, left] of some addresses
    sessions,   \* Server.sessions: what is left of some tokens
    verifying,  \* the logins in the slot: [ip, good, spent] between their locks
    granted,    \* history: what is left of the tokens given out and not returned
    tries       \* history: the comparisons of an address that are at most so
                \* old, since it last succeeded

vars == <<attempts, sessions, verifying, granted, tries>>

\* How old a comparison may be that the window can still see.
Ages == 0..(Window - 1)

NoTries == [age \in Ages |-> 0]

Init ==
    /\ attempts = [i \in {} |-> 0] /\ sessions = [t \in {} |-> 0]
    /\ verifying = {}
    /\ granted = sessions
    /\ tries = [i \in Ip |-> NoTries]

Without(f, x) == [y \in DOMAIN f \ {x} |-> f[y]]
With(f, x, v) == [y \in DOMAIN f \cup {x} |-> IF y = x THEN v ELSE f[y]]

-----------------------------------------------------------------------------
(* POST /api/login, up to the comparison *)

\* Seeded fault: no slot.
SlotIgnored == TRUE

SlotFree == verifying = {}

\* Seeded fault: the sweep forgets only the attempts of the caller.
SweptOwn(ip) ==
    [i \in {j \in DOMAIN attempts : attempts[j].left > 0 \/ j # ip} |->
        attempts[i]]

\* Both sweeps drop what has expired, whoever asks.
SweptAttempts(ip) ==
    [i \in {j \in DOMAIN attempts : attempts[j].left > 0} |-> attempts[i]]

\* Seeded fault: the sweep drops sessions in the last unit of their life.
SweptEarly == [t \in {u \in DOMAIN sessions : sessions[u] > 1} |-> sessions[t]]

SweptSessions ==
    [t \in {u \in DOMAIN sessions : sessions[u] > 0} |-> sessions[t]]

Count(ip) ==
    IF ip \in DOMAIN SweptAttempts(ip) THEN attempts[ip].count ELSE 0

\* Seeded fault: one attempt too many.
AdmittedOnceMore(ip) ==
    /\ Count(ip) <= MaxTries
    /\ Cardinality(DOMAIN SweptAttempts(ip)) < MaxAttempts
    /\ Cardinality(DOMAIN SweptSessions) < MaxSessions

Admitted(ip) ==
    /\ Count(ip) < MaxTries
    /\ Cardinality(DOMAIN SweptAttempts(ip)) < MaxAttempts
    /\ Cardinality(DOMAIN SweptSessions) < MaxSessions

\* The window runs from the first attempt.
Tried(ip) ==
    [count |-> Count(ip) + 1,
     left  |-> IF Count(ip) = 0 THEN Window ELSE attempts[ip].left]

Begin(ip, good) ==
    /\ SlotFree
    /\ Admitted(ip)
    /\ attempts' = With(SweptAttempts(ip), ip, Tried(ip))
    /\ sessions' = SweptSessions
    /\ verifying' = verifying \cup {[ip |-> ip, good |-> good, spent |-> 0]}
    /\ tries' = [tries EXCEPT ![ip] = [age \in Ages |-> @[age] + 1]]
    /\ UNCHANGED granted

\* 429: the sweep stays, the slot is given back. (429 for a taken slot
\* changes nothing.)
Refuse(ip) ==
    /\ SlotFree
    /\ ~Admitted(ip)
    /\ attempts' = SweptAttempts(ip) /\ sessions' = SweptSessions
    /\ UNCHANGED <<verifying, granted, tries>>

-----------------------------------------------------------------------------
(* After the comparison *)

\* Seeded fault: the attempts are forgotten before the password is judged.
FailForgiving(v) ==
    /\ v \in verifying /\ ~v.good
    /\ verifying' = verifying \ {v}
    /\ attempts' = Without(attempts, v.ip)
    /\ UNCHANGED <<sessions, granted, tries>>

\* 401: the attempt stays counted.
Fail(v) ==
    /\ v \in verifying /\ ~v.good
    /\ verifying' = verifying \ {v}
    /\ UNCHANGED <<attempts, sessions, granted, tries>>

\* The session lasts from the moment the login came in.
Succeed(v, t) ==
    /\ v \in verifying /\ v.good
    /\ t \notin DOMAIN sessions \cup DOMAIN granted
    /\ verifying' = verifying \ {v}
    /\ attempts' = Without(attempts, v.ip)
    /\ sessions' = With(sessions, t, Life - v.spent)
    /\ granted' = With(granted, t, Life - v.spent)
    /\ tries' = [tries EXCEPT ![v.ip] = NoTries]

-----------------------------------------------------------------------------
(* Logout, restart, time *)

\* POST /api/logout with the cookie that holds t.
Logout(t) ==
    /\ t \in DOMAIN granted
    /\ sessions' = Without(sessions, t)
    /\ granted' = Without(granted, t)
    /\ UNCHANGED <<attempts, verifying, tries>>

\* The process ends and starts again: both tables are empty, and the history
\* of comparisons starts over with the table it is held against.
Restart ==
    /\ attempts' = [i \in {} |-> 0] /\ sessions' = [t \in {} |-> 0]
    /\ verifying' = {}
    /\ granted' = sessions'
    /\ tries' = [i \in Ip |-> NoTries]

Less(n) == IF n > 0 THEN n - 1 ELSE 0

Tick ==
    /\ \A v \in verifying : v.spent < MaxVerify
    /\ attempts' = [i \in DOMAIN attempts |->
                       [attempts[i] EXCEPT !.left = Less(@)]]
    /\ sessions' = [t \in DOMAIN sessions |-> Less(sessions[t])]
    /\ verifying' = {[v EXCEPT !.spent = @ + 1] : v \in verifying}
    /\ granted' = [t \in {u \in DOMAIN granted : granted[u] > 1} |->
                      granted[t] - 1]
    /\ tries' = [i \in Ip |-> [age \in Ages |->
                                  IF age = 0 THEN 0 ELSE tries[i][age - 1]]]

Next ==
    \/ \E ip \in Ip, good \in BOOLEAN : Begin(ip, good)
    \/ \E ip \in Ip : Refuse(ip)
    \/ \E v \in verifying : Fail(v) \/ \E t \in Token : Succeed(v, t)
    \/ \E t \in Token : Logout(t)
    \/ Restart
    \/ Tick

Spec == Init /\ [][Next]_vars

\* A comparison ends, and time passes.
Fairness ==
    /\ WF_vars(\E v \in verifying : Fail(v) \/ \E t \in Token : Succeed(v, t))
    /\ WF_vars(Tick)

FairSpec == Spec /\ Fairness

-----------------------------------------------------------------------------
(* Properties *)

TypeOK ==
    /\ DOMAIN attempts \subseteq Ip
    /\ attempts \in [DOMAIN attempts -> [count : 1..MaxTries, left : 0..Window]]
    /\ DOMAIN sessions \subseteq Token
    /\ sessions \in [DOMAIN sessions -> 0..Life]
    /\ verifying \subseteq [ip : Ip, good : BOOLEAN, spent : 0..MaxVerify]
    /\ DOMAIN granted \subseteq Token
    /\ granted \in [DOMAIN granted -> 1..Life]
    /\ tries \in [Ip -> [Ages -> Nat]]

\* No interleaving of logins makes a table larger than its limit, although
\* the limits are checked under one lock and the session is stored under
\* another (server.go:180, 196).
TablesBounded ==
    /\ Cardinality(DOMAIN attempts) <= MaxAttempts
    /\ Cardinality(DOMAIN sessions) <= MaxSessions

\* The window is fixed, not sliding, yet in any stretch as long as a window
\* an address that does not succeed gets fewer than twice the allowed
\* comparisons. A restart empties the table of attempts, and the history of
\* this property begins anew with it: comparisons made before one come on top.
GuessesLimited == \A i \in Ip : tries[i][Window - 1] < 2 * MaxTries

\* A request counts as the administrator's, by the test in admin().
Accepted(t) == t \in DOMAIN sessions /\ sessions[t] > 0

\* Exactly the tokens that were given out, not logged out and not yet expired
\* are accepted: no sweep, limit or later login ends a session early, and
\* nothing brings one back (README.md:150).
SessionExact == \A t \in Token : Accepted(t) <=> t \in DOMAIN granted

\* Whatever others do, an address finds the door open again and again: the
\* slot and both tables recover without a restart.
LockoutEnds == \A i \in Ip : []<>(SlotFree /\ Admitted(i))
=============================================================================

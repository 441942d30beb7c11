----------------------------- MODULE LoginProofs -----------------------------
(***************************************************************************)
(* Proofs about Login for any addresses, tokens, limits and times.         *)
(***************************************************************************)
EXTENDS Login, FiniteSetTheorems, TLAPS

\* The slot holds one login, and keeps a place in the table of sessions for it.
SlotSound ==
    /\ \A v, w \in verifying : v = w
    /\ verifying # {} => Cardinality(DOMAIN sessions) < MaxSessions

\* A token that was given out has the time in the table that it should have, and
\* every other entry is spent.
SessionSound ==
    /\ DOMAIN granted \subseteq DOMAIN sessions
    /\ \A t \in DOMAIN granted : granted[t] = sessions[t]
    /\ \A t \in DOMAIN sessions \ DOMAIN granted : sessions[t] = 0

IInv == TypeOK /\ TablesBounded /\ SlotSound /\ SessionSound

USE LoginAssumption

-----------------------------------------------------------------------------
(* Facts about the helpers *)

LEMMA Withs ==
    ASSUME NEW f, NEW x, NEW v, NEW S, f \in [DOMAIN f -> S], v \in S
    PROVE  /\ DOMAIN With(f, x, v) = DOMAIN f \cup {x}
           /\ With(f, x, v) \in [DOMAIN With(f, x, v) -> S]
           /\ With(f, x, v)[x] = v
           /\ \A y \in DOMAIN f \ {x} : With(f, x, v)[y] = f[y]
BY DEF With

LEMMA Withouts ==
    ASSUME NEW f, NEW x, NEW S, f \in [DOMAIN f -> S]
    PROVE  /\ DOMAIN Without(f, x) = DOMAIN f \ {x}
           /\ Without(f, x) \in [DOMAIN Without(f, x) -> S]
           /\ \A y \in DOMAIN f \ {x} : Without(f, x)[y] = f[y]
BY DEF Without

\* A part of a table is no larger than the table.
LEMMA Smaller ==
    ASSUME NEW S, NEW T, IsFiniteSet(S), T \subseteq S
    PROVE  /\ IsFiniteSet(T)
           /\ Cardinality(T) \in Nat /\ Cardinality(S) \in Nat
           /\ Cardinality(T) <= Cardinality(S)
BY FS_Subset, FS_CardinalityType

\* One entry more.
LEMMA OneMore ==
    ASSUME NEW S, NEW x, NEW n \in Nat, IsFiniteSet(S), Cardinality(S) < n
    PROVE  Cardinality(S \cup {x}) <= n
<1>1. Cardinality(S) \in Nat
  BY FS_CardinalityType
<1>2. Cardinality(S \cup {x}) \in {Cardinality(S), Cardinality(S) + 1}
  BY FS_AddElement
<1> QED
  BY <1>1, <1>2

\* Both tables are finite.
LEMMA Finite ==
    TypeOK => IsFiniteSet(DOMAIN attempts) /\ IsFiniteSet(DOMAIN sessions)
BY FS_Subset DEF TypeOK

\* What the sweeps leave.
LEMMA SweptAttemptsType ==
    ASSUME TypeOK, NEW ip \in Ip
    PROVE  /\ DOMAIN SweptAttempts(ip) \subseteq DOMAIN attempts
           /\ SweptAttempts(ip) \in
                 [DOMAIN SweptAttempts(ip) -> [count : 1..MaxTries, left : 0..Window]]
           /\ ip \in DOMAIN SweptAttempts(ip) => ip \in DOMAIN attempts
           /\ Count(ip) \in 0..MaxTries
BY DEF TypeOK, SweptAttempts, Count

LEMMA SweptSessionsType ==
    ASSUME TypeOK, SessionSound
    PROVE  /\ DOMAIN SweptSessions \subseteq DOMAIN sessions
           /\ SweptSessions \in [DOMAIN SweptSessions -> 0..Life]
           /\ DOMAIN granted \subseteq DOMAIN SweptSessions
           /\ \A t \in DOMAIN SweptSessions : SweptSessions[t] = sessions[t]
BY DEF TypeOK, SweptSessions, SessionSound

-----------------------------------------------------------------------------
(* Every step keeps the invariant. *)

LEMMA InitIInv == Init => IInv
<1> SUFFICES ASSUME Init PROVE IInv
    OBVIOUS
<1>1. DOMAIN attempts = {} /\ DOMAIN sessions = {} /\ DOMAIN granted = {}
  BY DEF Init
<1>2. TypeOK
  BY <1>1 DEF Init, TypeOK, NoTries
<1>3. TablesBounded /\ SlotSound /\ SessionSound
  BY <1>1, FS_EmptySet DEF Init, TablesBounded, SlotSound, SessionSound
<1> QED
  BY <1>2, <1>3 DEF IInv

LEMMA BeginIInv ==
    ASSUME IInv, NEW ip \in Ip, NEW good \in BOOLEAN, Begin(ip, good)
    PROVE  IInv'
<1> DEFINE A == SweptAttempts(ip)
<1> USE DEF IInv
<1>1. /\ DOMAIN A \subseteq DOMAIN attempts
      /\ A \in [DOMAIN A -> [count : 1..MaxTries, left : 0..Window]]
      /\ ip \in DOMAIN A => ip \in DOMAIN attempts
      /\ Count(ip) \in 0..MaxTries
  BY SweptAttemptsType
<1>2. Tried(ip) \in [count : 1..MaxTries, left : 0..Window]
  <2>1. Count(ip) + 1 \in 1..MaxTries
    BY <1>1 DEF Begin, Admitted
  <2>2. Count(ip) # 0 => attempts[ip].left \in 0..Window
    BY <1>1 DEF TypeOK, Count
  <2> QED
    BY <2>1, <2>2 DEF Tried
<1>3. /\ DOMAIN attempts' = DOMAIN A \cup {ip}
      /\ attempts' \in [DOMAIN attempts' -> [count : 1..MaxTries, left : 0..Window]]
  BY <1>1, <1>2, Withs DEF Begin
<1>4. /\ DOMAIN sessions' \subseteq DOMAIN sessions
      /\ sessions' \in [DOMAIN sessions' -> 0..Life]
      /\ DOMAIN granted \subseteq DOMAIN sessions'
      /\ \A t \in DOMAIN sessions' : sessions'[t] = sessions[t]
  BY SweptSessionsType DEF Begin
<1>5. verifying' = {[ip |-> ip, good |-> good, spent |-> 0]}
  BY DEF Begin, SlotFree
<1>6. TypeOK'
  <2>1. tries' \in [Ip -> [Ages -> Nat]]
    BY DEF Begin, TypeOK
  <2>2. verifying' \subseteq [ip : Ip, good : BOOLEAN, spent : 0..MaxVerify]
    BY <1>5
  <2> QED
    BY <1>1, <1>3, <1>4, <2>1, <2>2 DEF Begin, TypeOK
<1>7. Cardinality(DOMAIN attempts') <= MaxAttempts
  <2>1. IsFiniteSet(DOMAIN A)
    BY <1>1, Finite, Smaller
  <2> QED
    BY <1>3, <2>1, OneMore DEF Begin, Admitted
<1>8. Cardinality(DOMAIN sessions') < MaxSessions
  BY DEF Begin, Admitted
<1>9. Cardinality(DOMAIN sessions') <= MaxSessions
  <2>1. Cardinality(DOMAIN sessions') \in Nat
    BY <1>4, Finite, Smaller
  <2> QED
    BY <1>8, <2>1
<1>10. SlotSound'
  BY <1>5, <1>8 DEF SlotSound
<1>11. SessionSound'
  BY <1>4 DEF SessionSound, Begin
<1> QED
  BY <1>6, <1>7, <1>9, <1>10, <1>11 DEF TablesBounded

LEMMA RefuseIInv ==
    ASSUME IInv, NEW ip \in Ip, Refuse(ip)
    PROVE  IInv'
<1> USE DEF IInv
<1>1. /\ DOMAIN attempts' \subseteq DOMAIN attempts
      /\ attempts' \in [DOMAIN attempts' -> [count : 1..MaxTries, left : 0..Window]]
  BY SweptAttemptsType DEF Refuse
<1>2. /\ DOMAIN sessions' \subseteq DOMAIN sessions
      /\ sessions' \in [DOMAIN sessions' -> 0..Life]
      /\ DOMAIN granted \subseteq DOMAIN sessions'
      /\ \A t \in DOMAIN sessions' : sessions'[t] = sessions[t]
  BY SweptSessionsType DEF Refuse
<1>3. TypeOK'
  BY <1>1, <1>2 DEF TypeOK, Refuse
<1>4. TablesBounded'
  <2>1. /\ Cardinality(DOMAIN attempts') \in Nat
        /\ Cardinality(DOMAIN attempts) \in Nat
        /\ Cardinality(DOMAIN attempts') <= Cardinality(DOMAIN attempts)
    BY <1>1, Finite, Smaller
  <2>2. /\ Cardinality(DOMAIN sessions') \in Nat
        /\ Cardinality(DOMAIN sessions) \in Nat
        /\ Cardinality(DOMAIN sessions') <= Cardinality(DOMAIN sessions)
    BY <1>2, Finite, Smaller
  <2> QED
    BY <2>1, <2>2 DEF TablesBounded
<1>5. SlotSound' /\ SessionSound'
  BY <1>2 DEF SlotSound, SessionSound, Refuse, SlotFree
<1> QED
  BY <1>3, <1>4, <1>5

LEMMA FailIInv ==
    ASSUME IInv, NEW v \in verifying, Fail(v)
    PROVE  IInv'
BY DEF IInv, TypeOK, TablesBounded, SlotSound, SessionSound, Fail

LEMMA SucceedIInv ==
    ASSUME IInv, NEW v \in verifying, NEW t \in Token, Succeed(v, t)
    PROVE  IInv'
<1> USE DEF IInv
<1>1. Life - v.spent \in 1..Life
  BY DEF TypeOK
<1>2. /\ DOMAIN attempts' \subseteq DOMAIN attempts
      /\ attempts' \in [DOMAIN attempts' -> [count : 1..MaxTries, left : 0..Window]]
  <2>1. attempts \in [DOMAIN attempts -> [count : 1..MaxTries, left : 0..Window]]
    BY DEF TypeOK
  <2>2. attempts' = Without(attempts, v.ip)
    BY DEF Succeed
  <2> QED
    BY <2>1, <2>2 DEF Without
<1>3. /\ DOMAIN sessions' = DOMAIN sessions \cup {t}
      /\ sessions' \in [DOMAIN sessions' -> 0..Life]
      /\ sessions'[t] = Life - v.spent
      /\ \A u \in DOMAIN sessions \ {t} : sessions'[u] = sessions[u]
  <2>1. sessions \in [DOMAIN sessions -> 0..Life] /\ Life - v.spent \in 0..Life
    BY <1>1 DEF TypeOK
  <2>2. sessions' = With(sessions, t, Life - v.spent)
    BY DEF Succeed
  <2> QED
    BY <2>1, <2>2 DEF With
<1>4. /\ DOMAIN granted' = DOMAIN granted \cup {t}
      /\ granted' \in [DOMAIN granted' -> 1..Life]
      /\ granted'[t] = Life - v.spent
      /\ \A u \in DOMAIN granted \ {t} : granted'[u] = granted[u]
  <2>1. granted \in [DOMAIN granted -> 1..Life] /\ Life - v.spent \in 1..Life
    BY <1>1 DEF TypeOK
  <2>2. granted' = With(granted, t, Life - v.spent)
    BY DEF Succeed
  <2> QED
    BY <2>1, <2>2 DEF With
<1>5. TypeOK'
  <2>1. tries' \in [Ip -> [Ages -> Nat]]
    BY DEF Succeed, TypeOK, NoTries
  <2> QED
    BY <1>2, <1>3, <1>4, <2>1 DEF TypeOK, Succeed
<1>6. Cardinality(DOMAIN attempts') <= MaxAttempts
  <2>1. /\ Cardinality(DOMAIN attempts') \in Nat
        /\ Cardinality(DOMAIN attempts) \in Nat
        /\ Cardinality(DOMAIN attempts') <= Cardinality(DOMAIN attempts)
    BY <1>2, Finite, Smaller
  <2> QED
    BY <2>1 DEF TablesBounded
<1>7. Cardinality(DOMAIN sessions') <= MaxSessions
  BY <1>3, Finite, OneMore DEF SlotSound
<1>8. SlotSound'
  BY DEF SlotSound, Succeed
<1>9. SessionSound'
  BY <1>3, <1>4 DEF SessionSound, Succeed
<1> QED
  BY <1>5, <1>6, <1>7, <1>8, <1>9 DEF TablesBounded

LEMMA LogoutIInv ==
    ASSUME IInv, NEW t \in Token, Logout(t)
    PROVE  IInv'
<1> USE DEF IInv
<1>1. /\ DOMAIN sessions' = DOMAIN sessions \ {t}
      /\ sessions' \in [DOMAIN sessions' -> 0..Life]
      /\ \A u \in DOMAIN sessions \ {t} : sessions'[u] = sessions[u]
  BY Withouts DEF TypeOK, Logout
<1>2. /\ DOMAIN granted' = DOMAIN granted \ {t}
      /\ granted' \in [DOMAIN granted' -> 1..Life]
      /\ \A u \in DOMAIN granted \ {t} : granted'[u] = granted[u]
  BY Withouts DEF TypeOK, Logout
<1>3. TypeOK'
  BY <1>1, <1>2 DEF TypeOK, Logout
<1>4. /\ Cardinality(DOMAIN sessions') \in Nat
      /\ Cardinality(DOMAIN sessions) \in Nat
      /\ Cardinality(DOMAIN sessions') <= Cardinality(DOMAIN sessions)
  BY <1>1, Finite, Smaller
<1>5. TablesBounded' /\ SlotSound'
  BY <1>4 DEF TablesBounded, SlotSound, Logout
<1>6. SessionSound'
  BY <1>1, <1>2 DEF SessionSound
<1> QED
  BY <1>3, <1>5, <1>6

LEMMA RestartIInv ==
    ASSUME IInv, Restart
    PROVE  IInv'
<1>1. DOMAIN attempts' = {} /\ DOMAIN sessions' = {} /\ DOMAIN granted' = {}
  BY DEF Restart
<1>2. TypeOK'
  BY <1>1 DEF Restart, TypeOK, NoTries
<1>3. TablesBounded' /\ SlotSound' /\ SessionSound'
  BY <1>1, FS_EmptySet DEF Restart, TablesBounded, SlotSound, SessionSound
<1> QED
  BY <1>2, <1>3 DEF IInv

LEMMA TickIInv ==
    ASSUME IInv, Tick
    PROVE  IInv'
<1> USE DEF IInv
<1>1. /\ DOMAIN attempts' = DOMAIN attempts
      /\ attempts' \in [DOMAIN attempts' -> [count : 1..MaxTries, left : 0..Window]]
  <2>1. attempts' = [i \in DOMAIN attempts |->
                        [attempts[i] EXCEPT !.left = Less(@)]]
    BY DEF Tick
  <2>2. ASSUME NEW i \in DOMAIN attempts
        PROVE  [attempts[i] EXCEPT !.left = Less(@)] \in
                  [count : 1..MaxTries, left : 0..Window]
    <3>1. attempts[i] \in [count : 1..MaxTries, left : 0..Window]
      BY DEF TypeOK
    <3>2. Less(attempts[i].left) \in 0..Window
      BY <3>1 DEF Less
    <3> QED
      BY <3>1, <3>2
  <2> QED
    BY <2>1, <2>2
<1>2. /\ DOMAIN sessions' = DOMAIN sessions
      /\ sessions' \in [DOMAIN sessions' -> 0..Life]
      /\ \A t \in DOMAIN sessions : sessions'[t] = Less(sessions[t])
  BY DEF TypeOK, Tick, Less
<1>3. /\ DOMAIN granted' = {t \in DOMAIN granted : granted[t] > 1}
      /\ granted' \in [DOMAIN granted' -> 1..Life]
      /\ \A t \in DOMAIN granted' : granted'[t] = granted[t] - 1
  BY DEF TypeOK, Tick
<1>4. verifying' \subseteq [ip : Ip, good : BOOLEAN, spent : 0..MaxVerify]
  <2> SUFFICES ASSUME NEW v \in verifying
               PROVE  [v EXCEPT !.spent = @ + 1] \in
                         [ip : Ip, good : BOOLEAN, spent : 0..MaxVerify]
    BY DEF Tick
  <2>1. v \in [ip : Ip, good : BOOLEAN, spent : 0..MaxVerify]
    BY DEF TypeOK
  <2>2. v.spent + 1 \in 0..MaxVerify
    BY <2>1 DEF Tick
  <2> QED
    BY <2>1, <2>2
<1>5. tries' \in [Ip -> [Ages -> Nat]]
  <2>1. tries' = [i \in Ip |-> [age \in Ages |->
                                 IF age = 0 THEN 0 ELSE tries[i][age - 1]]]
    BY DEF Tick
  <2>2. ASSUME NEW i \in Ip, NEW age \in Ages, age # 0
        PROVE  tries[i][age - 1] \in Nat
    <3>1. tries[i] \in [Ages -> Nat] /\ age - 1 \in Ages
      BY <2>2 DEF TypeOK, Ages
    <3> QED
      BY <3>1
  <2>3. ASSUME NEW i \in Ip
        PROVE  [age \in Ages |->
                   IF age = 0 THEN 0 ELSE tries[i][age - 1]]
                  \in [Ages -> Nat]
    BY <2>2
  <2> QED
    BY <2>1, <2>3
<1>6. TypeOK'
  BY <1>1, <1>2, <1>3, <1>4, <1>5 DEF TypeOK
<1>7. TablesBounded' /\ SlotSound'
  BY <1>1, <1>2 DEF TablesBounded, SlotSound, Tick
<1>8. SessionSound'
  BY <1>2, <1>3 DEF SessionSound, TypeOK, Less
<1> QED
  BY <1>6, <1>7, <1>8

LEMMA NextIInv == IInv /\ [Next]_vars => IInv'
<1> SUFFICES ASSUME IInv, [Next]_vars PROVE IInv'
    OBVIOUS
<1>1. CASE UNCHANGED vars
  BY <1>1 DEF vars, IInv, TypeOK, TablesBounded, SlotSound, SessionSound
<1>2. CASE Next
  BY <1>2, BeginIInv, RefuseIInv, FailIInv, SucceedIInv, LogoutIInv,
     RestartIInv, TickIInv DEF Next
<1> QED
  BY <1>1, <1>2

-----------------------------------------------------------------------------
(* Guesses: t[a] comparisons of an address are at most a units old.          *)

\* The window that counts runs since the first of its comparisons: those of
\* the window are counted, and what is older was refused before the limit.
InWindow(t, count, left) ==
    /\ t[Window - left] <= count
    /\ Window - left > 0 => t[Window - left - 1] < count
    /\ t[Window - 1] - t[Window - left] < MaxTries

\* No window runs: the last one has ended since its first comparison.
BetweenWindows(t) == t[0] = 0 /\ t[Window - 1] < MaxTries

\* Older ones are counted with the younger ones.
Rises(t) == \A a \in Ages \ {0} : t[a - 1] <= t[a]

GuessSound ==
    \A i \in Ip :
        /\ Rises(tries[i])
        /\ IF i \in DOMAIN attempts /\ attempts[i].left > 0
           THEN InWindow(tries[i], attempts[i].count, attempts[i].left)
           ELSE BetweenWindows(tries[i])

Aged(t) == [age \in Ages |-> IF age = 0 THEN 0 ELSE t[age - 1]]
OneMoreTry(t) == [age \in Ages |-> t[age] + 1]

LEMMA AgesFacts ==
    /\ Window \in Nat /\ Window > 0 /\ MaxTries \in Nat /\ MaxTries > 0
    /\ 0 \in Ages /\ Window - 1 \in Ages
    /\ \A left \in 1..Window : Window - left \in Ages
    /\ \A a \in Ages \ {0} : a - 1 \in Ages
  BY DEF Ages

LEMMA NoTriesSound ==
    NoTries \in [Ages -> Nat] /\ Rises(NoTries) /\ BetweenWindows(NoTries)
  BY AgesFacts DEF NoTries, Rises, BetweenWindows

LEMMA AgedSound ==
    ASSUME NEW t \in [Ages -> Nat], Rises(t), NEW count \in 1..MaxTries,
           NEW left \in 0..Window
    PROVE  /\ Rises(Aged(t))
           /\ left > 1 /\ InWindow(t, count, left) =>
                 InWindow(Aged(t), count, left - 1)
           /\ left = 1 /\ InWindow(t, count, left) => BetweenWindows(Aged(t))
           /\ BetweenWindows(t) => BetweenWindows(Aged(t))
<1> DEFINE u == Aged(t)
<1>1. /\ u \in [Ages -> Nat] /\ u[0] = 0
      /\ \A a \in Ages \ {0} : u[a] = t[a - 1]
      /\ \A a \in Ages : t[a] \in Nat /\ u[a] \in Nat
  BY AgesFacts DEF Aged
<1> HIDE DEF u
<1>2. Rises(u)
  <2> SUFFICES ASSUME NEW a \in Ages \ {0} PROVE u[a - 1] <= u[a]
    BY DEF Rises
  <2>1. a - 1 \in Ages
    BY AgesFacts
  <2>2. CASE a - 1 = 0
    BY <1>1, <2>1, <2>2
  <2>3. CASE a - 1 # 0
    BY <1>1, <2>1, <2>3 DEF Rises
  <2> QED  BY <2>2, <2>3
<1>3. ASSUME left > 1, InWindow(t, count, left)
      PROVE  InWindow(u, count, left - 1)
  <2>1. /\ Window - (left - 1) \in Ages \ {0}
        /\ Window - (left - 1) - 1 = Window - left
        /\ Window - left \in Ages
    BY <1>3, AgesFacts DEF Ages
  <2>2. u[Window - (left - 1)] = t[Window - left]
    BY <1>1, <2>1
  <2>3. u[Window - (left - 1)] <= count
    BY <1>3, <2>2 DEF InWindow
  <2>4. u[Window - left] < count
    <3>1. CASE Window - left = 0
      BY <1>1, <3>1
    <3>2. CASE Window - left # 0
      <4>1. Window - left > 0 /\ u[Window - left] = t[Window - left - 1]
        BY <1>1, <2>1, <3>2 DEF Ages
      <4> QED  BY <1>3, <4>1 DEF InWindow
    <3> QED  BY <3>1, <3>2
  <2>5. u[Window - 1] - u[Window - (left - 1)] < MaxTries
    <3>1. Window - 1 \in Ages \ {0}
      BY <1>3, AgesFacts
    <3>2. u[Window - 1] = t[Window - 1 - 1] /\ t[Window - 1 - 1] <= t[Window - 1]
      BY <1>1, <3>1 DEF Rises
    <3>3. t[Window - 1] - t[Window - left] < MaxTries
      BY <1>3 DEF InWindow
    <3>4. Window - 1 - 1 \in Ages
      BY <3>1, AgesFacts
    <3>5. /\ t[Window - 1] \in Nat /\ t[Window - left] \in Nat
          /\ t[Window - 1 - 1] \in Nat
      BY <1>1, <2>1, <3>1, <3>4
    <3> QED  BY <2>2, <3>2, <3>3, <3>5, AgesFacts
  <2> QED  BY <2>1, <2>3, <2>4, <2>5 DEF InWindow
<1>4. ASSUME left = 1, InWindow(t, count, left)
      PROVE  BetweenWindows(u)
  <2>1. u[Window - 1] < MaxTries
    <3>1. CASE Window - 1 = 0
      BY <1>1, <3>1, AgesFacts
    <3>2. CASE Window - 1 # 0
      <4>1. Window - 1 \in Ages \ {0} /\ Window - 1 > 0
        BY <3>2, AgesFacts
      <4>2. u[Window - 1] = t[Window - 1 - 1]
        BY <1>1, <4>1
      <4>3. t[Window - 1 - 1] < count
        BY <1>4, <4>1 DEF InWindow
      <4>4. t[Window - 1 - 1] \in Nat
        BY <1>1, <4>1, AgesFacts
      <4> QED  BY <4>2, <4>3, <4>4, AgesFacts
    <3> QED  BY <3>1, <3>2
  <2> QED  BY <1>1, <2>1 DEF BetweenWindows
<1>5. ASSUME BetweenWindows(t) PROVE BetweenWindows(u)
  <2>1. u[Window - 1] < MaxTries
    <3>1. CASE Window - 1 = 0
      BY <1>1, <3>1, AgesFacts
    <3>2. CASE Window - 1 # 0
      <4>1. Window - 1 \in Ages \ {0}
        BY <3>2, AgesFacts
      <4>2. u[Window - 1] = t[Window - 1 - 1] /\ t[Window - 1 - 1] <= t[Window - 1]
        BY <1>1, <4>1 DEF Rises
      <4>3. t[Window - 1 - 1] \in Nat /\ t[Window - 1] \in Nat
        BY <1>1, <4>1, AgesFacts
      <4> QED  BY <1>5, <4>2, <4>3, AgesFacts DEF BetweenWindows
    <3> QED  BY <3>1, <3>2
  <2> QED  BY <1>1, <2>1 DEF BetweenWindows
<1> QED  BY <1>2, <1>3, <1>4, <1>5 DEF u

LEMMA OneMoreTrySound ==
    ASSUME NEW t \in [Ages -> Nat], Rises(t)
    PROVE  /\ Rises(OneMoreTry(t))
           /\ BetweenWindows(t) => InWindow(OneMoreTry(t), 1, Window)
           /\ \A count \in Nat, left \in 1..Window :
                 InWindow(t, count, left) =>
                     InWindow(OneMoreTry(t), count + 1, left)
<1> DEFINE u == OneMoreTry(t)
<1>1. \A a \in Ages : u[a] = t[a] + 1 /\ t[a] \in Nat
  BY DEF OneMoreTry
<1> HIDE DEF u
<1>2. Rises(u)
  <2> SUFFICES ASSUME NEW a \in Ages \ {0} PROVE u[a - 1] <= u[a]
    BY DEF Rises
  <2>1. a - 1 \in Ages /\ t[a - 1] <= t[a]
    BY AgesFacts DEF Rises
  <2> QED  BY <1>1, <2>1
<1>3. ASSUME BetweenWindows(t) PROVE InWindow(u, 1, Window)
  <2>1. /\ Window - Window = 0 /\ u[0] = 1
        /\ u[Window - 1] = t[Window - 1] + 1 /\ t[Window - 1] \in Nat
    BY <1>1, <1>3, AgesFacts DEF BetweenWindows
  <2> QED  BY <1>3, <2>1, AgesFacts DEF InWindow, BetweenWindows
<1>4. ASSUME NEW count \in Nat, NEW left \in 1..Window,
             InWindow(t, count, left)
      PROVE  InWindow(u, count + 1, left)
  <2>1. Window - left \in Ages /\ Window - 1 \in Ages
    BY AgesFacts
  <2>2. /\ u[Window - left] = t[Window - left] + 1 /\ t[Window - left] \in Nat
        /\ u[Window - 1] = t[Window - 1] + 1 /\ t[Window - 1] \in Nat
    BY <1>1, <2>1
  <2>3. ASSUME Window - left > 0 PROVE u[Window - left - 1] < count + 1
    <3>1. Window - left - 1 \in Ages
      BY <2>1, <2>3, AgesFacts DEF Ages
    <3>2. /\ u[Window - left - 1] = t[Window - left - 1] + 1
          /\ t[Window - left - 1] \in Nat
      BY <1>1, <3>1
    <3> QED  BY <1>4, <2>3, <3>2 DEF InWindow
  <2> QED  BY <1>4, <2>2, <2>3, AgesFacts DEF InWindow
<1> QED  BY <1>2, <1>3, <1>4 DEF u

-----------------------------------------------------------------------------
(* The theorems *)

\* Every variable keeps its type: in particular no address is ever counted
\* beyond the limit, and no session lives longer than it should.
THEOREM TypeCorrect == Spec => []TypeOK
<1>1. IInv => TypeOK
  BY DEF IInv
<1> QED
  BY InitIInv, NextIInv, <1>1, PTL DEF Spec

\* No table outgrows its limit, because the slot keeps the place that was
\* found free while the password is compared without the lock.
THEOREM TablesKeepLimits == Spec => []TablesBounded
<1>1. IInv => TablesBounded
  BY DEF IInv
<1> QED
  BY InitIInv, NextIInv, <1>1, PTL DEF Spec

\* A token is accepted exactly from its login to its logout, its expiry or a
\* restart.
THEOREM SessionsAreExact == Spec => []SessionExact
<1>1. IInv => SessionExact
  BY DEF IInv, SessionExact, Accepted, SessionSound, TypeOK
<1> QED
  BY InitIInv, NextIInv, <1>1, PTL DEF Spec

LEMMA GuessStep == IInv /\ GuessSound /\ [Next]_vars => GuessSound'
<1> SUFFICES ASSUME IInv, GuessSound, [Next]_vars PROVE GuessSound'
  OBVIOUS
<1>1. /\ tries \in [Ip -> [Ages -> Nat]]
      /\ \A i \in DOMAIN attempts : /\ attempts[i].count \in 1..MaxTries
                                    /\ attempts[i].left \in 0..Window
  BY DEF IInv, TypeOK
<1>2. ASSUME NEW i \in Ip
      PROVE  /\ tries[i] \in [Ages -> Nat] /\ Rises(tries[i])
             /\ i \in DOMAIN attempts /\ attempts[i].left > 0 =>
                   InWindow(tries[i], attempts[i].count, attempts[i].left)
             /\ ~(i \in DOMAIN attempts /\ attempts[i].left > 0) =>
                   BetweenWindows(tries[i])
  BY <1>1 DEF GuessSound
<1>3. \* A sweep drops only what no longer counts.
      ASSUME NEW ip \in Ip, NEW i \in Ip
      PROVE  /\ i \in DOMAIN SweptAttempts(ip) <=>
                    i \in DOMAIN attempts /\ attempts[i].left > 0
             /\ i \in DOMAIN SweptAttempts(ip) =>
                    SweptAttempts(ip)[i] = attempts[i]
  BY DEF SweptAttempts
<1>4. ASSUME NEW ip \in Ip, NEW good \in BOOLEAN, Begin(ip, good)
      PROVE  GuessSound'
  <2>1. /\ attempts' = With(SweptAttempts(ip), ip, Tried(ip))
        /\ tries' = [tries EXCEPT ![ip] = OneMoreTry(tries[ip])]
        /\ Count(ip) < MaxTries
    BY <1>1, <1>4 DEF Begin, Admitted, OneMoreTry
  <2> SUFFICES ASSUME NEW i \in Ip
               PROVE  /\ Rises(tries'[i])
                      /\ IF i \in DOMAIN attempts' /\ attempts'[i].left > 0
                         THEN InWindow(tries'[i], attempts'[i].count,
                                       attempts'[i].left)
                         ELSE BetweenWindows(tries'[i])
    BY DEF GuessSound, Rises, InWindow, BetweenWindows
  <2>2. CASE i # ip
    <3>1. tries'[i] = tries[i]
      BY <1>1, <2>1, <2>2
    <3>2. /\ i \in DOMAIN attempts' <=> i \in DOMAIN SweptAttempts(ip)
          /\ i \in DOMAIN attempts' => attempts'[i] = SweptAttempts(ip)[i]
      BY <2>1, <2>2 DEF With
    <3>3. /\ i \in DOMAIN attempts' <=>
                i \in DOMAIN attempts /\ attempts[i].left > 0
          /\ i \in DOMAIN attempts' => attempts'[i] = attempts[i]
      BY <1>3, <3>2
    <3> QED  BY <1>2, <3>1, <3>3
  <2>3. CASE i = ip
    <3>1. tries'[i] = OneMoreTry(tries[i]) /\ Rises(OneMoreTry(tries[i]))
      BY <1>1, <1>2, <2>1, <2>3, OneMoreTrySound
    <3>2. i \in DOMAIN attempts' /\ attempts'[i] = Tried(i)
      BY <2>1, <2>3 DEF With
    <3>3. CASE i \in DOMAIN attempts /\ attempts[i].left > 0
      <4>1. /\ Count(i) = attempts[i].count /\ attempts[i].count \in 1..MaxTries
            /\ attempts[i].left \in 1..Window
        BY <1>1, <1>3, <3>3 DEF Count
      <4>2. /\ Tried(i).count = attempts[i].count + 1
            /\ Tried(i).left = attempts[i].left
        BY <4>1 DEF Tried
      <4>3. InWindow(OneMoreTry(tries[i]), attempts[i].count + 1,
                     attempts[i].left)
        <5>1. attempts[i].count \in Nat
          BY <4>1, AgesFacts
        <5> QED  BY <1>2, <3>3, <4>1, <5>1, OneMoreTrySound
      <4> QED  BY <3>1, <3>2, <4>1, <4>2, <4>3
    <3>4. CASE ~(i \in DOMAIN attempts /\ attempts[i].left > 0)
      <4>1. Count(i) = 0
        BY <1>3, <3>4 DEF Count
      <4>2. Tried(i).count = 1 /\ Tried(i).left = Window
        BY <4>1 DEF Tried
      <4>3. InWindow(OneMoreTry(tries[i]), 1, Window)
        BY <1>2, <3>4, OneMoreTrySound
      <4> QED  BY <3>1, <3>2, <4>2, <4>3, AgesFacts
    <3> QED  BY <3>3, <3>4
  <2> QED  BY <2>2, <2>3
<1>5. ASSUME NEW ip \in Ip, Refuse(ip) PROVE GuessSound'
  <2>1. attempts' = SweptAttempts(ip) /\ tries' = tries
    BY <1>5 DEF Refuse
  <2> SUFFICES ASSUME NEW i \in Ip
               PROVE  /\ Rises(tries[i])
                      /\ IF i \in DOMAIN attempts' /\ attempts'[i].left > 0
                         THEN InWindow(tries[i], attempts'[i].count,
                                       attempts'[i].left)
                         ELSE BetweenWindows(tries[i])
    BY <2>1 DEF GuessSound, Rises, InWindow, BetweenWindows
  <2> QED  BY <1>2, <1>3, <2>1
<1>6. ASSUME NEW v \in verifying, NEW t \in Token, Succeed(v, t)
      PROVE  GuessSound'
  <2>1. /\ attempts' = Without(attempts, v.ip) /\ v.ip \in Ip
        /\ tries' = [tries EXCEPT ![v.ip] = NoTries]
    BY <1>6 DEF Succeed, IInv, TypeOK
  <2> SUFFICES ASSUME NEW i \in Ip
               PROVE  /\ Rises(tries'[i])
                      /\ IF i \in DOMAIN attempts' /\ attempts'[i].left > 0
                         THEN InWindow(tries'[i], attempts'[i].count,
                                       attempts'[i].left)
                         ELSE BetweenWindows(tries'[i])
    BY DEF GuessSound, Rises, InWindow, BetweenWindows
  <2>2. CASE i = v.ip
    <3>1. tries'[i] = NoTries /\ i \notin DOMAIN attempts'
      BY <1>1, <2>1, <2>2 DEF Without
    <3> QED  BY <3>1, NoTriesSound
  <2>3. CASE i # v.ip
    <3>1. /\ tries'[i] = tries[i]
          /\ i \in DOMAIN attempts' <=> i \in DOMAIN attempts
          /\ i \in DOMAIN attempts => attempts'[i] = attempts[i]
      BY <1>1, <2>1, <2>3 DEF Without
    <3> QED  BY <1>2, <3>1
  <2> QED  BY <2>2, <2>3
<1>7. ASSUME Restart PROVE GuessSound'
  <2>1. DOMAIN attempts' = {} /\ tries' = [i \in Ip |-> NoTries]
    BY <1>7 DEF Restart
  <2> SUFFICES ASSUME NEW i \in Ip
               PROVE  Rises(tries'[i]) /\ BetweenWindows(tries'[i])
    BY <2>1 DEF GuessSound, Rises, InWindow, BetweenWindows
  <2> QED  BY <2>1, NoTriesSound
<1>8. ASSUME Tick PROVE GuessSound'
  <2>1. /\ attempts' = [i \in DOMAIN attempts |->
                           [attempts[i] EXCEPT !.left = Less(@)]]
        /\ tries' = [i \in Ip |-> Aged(tries[i])]
    BY <1>8 DEF Tick, Aged
  <2> SUFFICES ASSUME NEW i \in Ip
               PROVE  /\ Rises(tries'[i])
                      /\ IF i \in DOMAIN attempts' /\ attempts'[i].left > 0
                         THEN InWindow(tries'[i], attempts'[i].count,
                                       attempts'[i].left)
                         ELSE BetweenWindows(tries'[i])
    BY DEF GuessSound, Rises, InWindow, BetweenWindows
  <2>2. tries'[i] = Aged(tries[i])
    BY <2>1
  <2>3. 1 \in 1..MaxTries /\ 0 \in 0..Window
    BY AgesFacts
  <2>4. /\ Rises(Aged(tries[i]))
        /\ BetweenWindows(tries[i]) => BetweenWindows(Aged(tries[i]))
    BY <1>2, <2>3, AgedSound
  <2>5. CASE i \notin DOMAIN attempts
    <3>1. i \notin DOMAIN attempts'
      BY <2>1, <2>5
    <3> QED  BY <1>2, <2>2, <2>4, <2>5, <3>1
  <2>6. CASE i \in DOMAIN attempts
    <3> DEFINE count == attempts[i].count
               left == attempts[i].left
    <3>1. count \in 1..MaxTries /\ left \in 0..Window
      BY <1>1, <2>6
    <3>2. /\ i \in DOMAIN attempts' /\ attempts'[i].count = count
          /\ attempts'[i].left = Less(left)
      <4>1. attempts[i] \in [count : 1..MaxTries, left : 0..Window]
        BY <2>6 DEF IInv, TypeOK
      <4> QED  BY <2>1, <2>6, <4>1
    <3>3. left > 0 => InWindow(tries[i], count, left)
      BY <1>2, <2>6
    <3>4. ~(left > 0) => BetweenWindows(tries[i])
      BY <1>2
    <3> HIDE DEF count, left
    <3>5. CASE left > 1
      <4>1. InWindow(Aged(tries[i]), count, left - 1)
        BY <1>2, <3>1, <3>3, <3>5, AgedSound
      <4>2. Less(left) = left - 1 /\ left - 1 > 0
        BY <3>1, <3>5 DEF Less
      <4> QED  BY <2>2, <2>4, <3>2, <4>1, <4>2
    <3>6. CASE left = 1
      <4>1. BetweenWindows(Aged(tries[i]))
        BY <1>2, <3>1, <3>3, <3>6, AgedSound
      <4>2. Less(left) = 0
        BY <3>6 DEF Less
      <4> QED  BY <2>2, <2>4, <3>2, <4>1, <4>2
    <3>7. CASE left = 0
      <4>1. Less(left) = 0
        BY <3>7 DEF Less
      <4> QED  BY <2>2, <2>4, <3>2, <3>4, <3>7, <4>1
    <3> QED  BY <3>1, <3>5, <3>6, <3>7
  <2> QED  BY <2>5, <2>6
<1>9. ASSUME UNCHANGED <<attempts, tries>> PROVE GuessSound'
  BY <1>9 DEF GuessSound, Rises, InWindow, BetweenWindows
<1> QED
  BY <1>4, <1>5, <1>6, <1>7, <1>8, <1>9 DEF Next, Fail, Logout, vars

\* An address that does not succeed gets fewer than twice the allowed
\* comparisons in any stretch as long as a window, although the window is
\* fixed (login of server.go).
THEOREM GuessesAreLimited == Spec => []GuessesLimited
<1>1. Init => GuessSound
  <2> SUFFICES ASSUME Init PROVE GuessSound
    OBVIOUS
  <2>1. DOMAIN attempts = {} /\ tries = [i \in Ip |-> NoTries]
    BY DEF Init
  <2> QED  BY <2>1, NoTriesSound DEF GuessSound
<1>2. IInv /\ GuessSound => GuessesLimited
  <2> SUFFICES ASSUME IInv, GuessSound, NEW i \in Ip
               PROVE  tries[i][Window - 1] < 2 * MaxTries
    BY DEF GuessesLimited
  <2>1. tries[i] \in [Ages -> Nat]
    BY DEF IInv, TypeOK
  <2>2. CASE i \in DOMAIN attempts /\ attempts[i].left > 0
    <3>1. attempts[i].count \in 1..MaxTries /\ attempts[i].left \in 1..Window
      BY <2>2 DEF IInv, TypeOK
    <3>2. InWindow(tries[i], attempts[i].count, attempts[i].left)
      BY <2>2 DEF GuessSound
    <3>3. /\ tries[i][Window - attempts[i].left] \in Nat
          /\ tries[i][Window - 1] \in Nat
      BY <2>1, <3>1, AgesFacts
    <3> QED  BY <3>1, <3>2, <3>3, AgesFacts DEF InWindow
  <2>3. CASE ~(i \in DOMAIN attempts /\ attempts[i].left > 0)
    <3>1. BetweenWindows(tries[i])
      BY <2>3 DEF GuessSound
    <3>2. tries[i][Window - 1] \in Nat
      BY <2>1, AgesFacts
    <3> QED  BY <3>1, <3>2, AgesFacts DEF BetweenWindows
  <2> QED  BY <2>2, <2>3
<1> QED
  BY InitIInv, NextIInv, GuessStep, <1>1, <1>2, PTL DEF Spec
=============================================================================

------------------------- MODULE RelayTrafficProofs --------------------------
(***************************************************************************)
(* Proofs about RelayTraffic, for every period of the timer, every timeout *)
(* and every size of message.                                              *)
(***************************************************************************)
EXTENDS RelayTraffic, TLAPS

\* While a tick of the timer is to come, it comes soon enough.
SilenceInv == due > 0 => silence + due <= LONGEST_SILENCE

\* The task is not in its select for longer than the timer lets it.
LookInv == pc = "select" => tm < STALE /\ tm + due < STALE

\* After the first look, blacked is what BLACKLIST was then, tm ago.
BlackedInv == since > tm /\ age > tm => blacked = BLACKLIST

\* What the task has counted is no more than the relay's age, and the age up to
\* the last look no more than what it has counted, stretched.
AgeInv ==
    age < MAX_AGE =>
        /\ elapsed * MS + tm <= age
        /\ (age - tm) * SECOND <= elapsed * MS * STRETCH

\* The locks are waited for no longer than LOCK_WAIT.
LockInv ==
    /\ pc \in {"block", "black"} =>
          SECOND <= measured /\ measured <= tm /\ tm <= measured + LOCK_WAIT
    /\ pc = "usage" => tm <= LOCK_WAIT

\* No relay, no age.
IdleInv == pc = "none" => tm = 0 /\ age = 0 /\ due = 0

Inv == TypeOK /\ IdleInv /\ SilenceInv /\ LookInv /\ BlackedInv /\ LockInv /\ AgeInv

-----------------------------------------------------------------------------
(***************************************************************************)
(* The constants are numbers of the kinds arithmetic needs.                *)
(***************************************************************************)
LEMMA Numbers ==
    /\ SECOND \in Nat /\ TIMER \in Nat /\ SECOND > 0 /\ TIMER > 0
    /\ MS \in Nat /\ MS > 0 /\ LOCK_WAIT \in Nat /\ LOCK_WAIT < SECOND
    /\ STRETCH \in Nat /\ STRETCH > 0
    /\ MAX_AGE \in Nat /\ STALE \in Nat /\ MAX_AGE >= STALE
    /\ STALE = SECOND + TIMER
    /\ LONGEST_SILENCE \in Nat /\ MAX_AGE > LONGEST_SILENCE
    /\ (SILENCE + 1) * SECOND \in Nat
    /\ LONGEST_SILENCE = (SILENCE + 1) * SECOND - 1 + TIMER
  <1>1. SECOND \in Nat /\ SECOND > 0
    BY ConstantsAssumption DEF SECOND
  <1>2. (SILENCE + 1) * SECOND \in Nat
    BY <1>1, ConstantsAssumption
  <1> QED
    BY <1>1, <1>2, ConstantsAssumption DEF STALE, LONGEST_SILENCE, STRETCH

(***************************************************************************)
(* A greater number has greater multiples.                                 *)
(***************************************************************************)
LEMMA TimesGrows ==
    ASSUME NEW x \in Nat, NEW y \in Nat, NEW z \in Nat, x <= y
    PROVE  x * z <= y * z
  OBVIOUS

(***************************************************************************)
(* as_millis() drops less than a millisecond.                              *)
(***************************************************************************)
LEMMA Truncates ==
    ASSUME NEW m \in Nat
    PROVE  /\ m \div MS \in Nat /\ (m \div MS) * MS <= m
           /\ m <= (m \div MS) * MS + MS - 1
  BY Numbers

(***************************************************************************)
(* A look adds no more than has gone by, and of a second at least a part   *)
(* SECOND / STRETCH: t has gone by since the last look, of which m was     *)
(* measured.                                                               *)
(***************************************************************************)
LEMMA LookAdds ==
    ASSUME NEW e \in Nat, NEW m \in Nat, NEW t \in Nat, NEW a \in Nat,
           SECOND <= m, m <= t, t <= m + LOCK_WAIT,
           e * MS + t <= a, (a - t) * SECOND <= e * MS * STRETCH
    PROVE  /\ (e + m \div MS) * MS <= a
           /\ a * SECOND <= (e + m \div MS) * MS * STRETCH
  <1> DEFINE d == m \div MS  D == d * MS  E == e * MS
  <1> USE Numbers
  <1>1. d \in Nat /\ D \in Nat /\ E \in Nat /\ D <= m /\ m <= D + MS - 1
    BY Truncates
  <1>2. (e + d) * MS = E + D
    BY <1>1
  <1>3. SECOND <= D
    <2>1. MILLIS \in Nat /\ SECOND = MILLIS * MS
      BY ConstantsAssumption DEF SECOND
    <2>2. CASE MILLIS <= d
      BY <1>1, <2>1, <2>2, TimesGrows
    <2>3. CASE d + 1 <= MILLIS
      <3>1. (d + 1) * MS <= MILLIS * MS
        BY <1>1, <2>1, <2>3, TimesGrows
      <3>2. (d + 1) * MS = D + MS
        BY <1>1
      <3> QED
        BY <1>1, <2>1, <3>1, <3>2
    <2> QED
      BY <1>1, <2>1, <2>2, <2>3
  <1> DEFINE lost == MS - 1 + LOCK_WAIT
  <1> HIDE DEF d, D, E
  <1>4. t * SECOND <= D * STRETCH
    <2>1. lost \in Nat /\ STRETCH = SECOND + lost /\ t <= D + lost
      BY <1>1 DEF STRETCH
    <2>2. t * SECOND <= (D + lost) * SECOND
      BY <1>1, <2>1, TimesGrows
    <2>3. SECOND * lost <= D * lost
      BY <1>1, <1>3, <2>1, TimesGrows
    <2>4. (D + lost) * SECOND = D * SECOND + SECOND * lost
      BY <1>1, <2>1
    <2>5. D * STRETCH = D * SECOND + D * lost
      BY <1>1, <2>1
    <2> QED
      BY <1>1, <2>1, <2>2, <2>3, <2>4, <2>5
  <1>5. a * SECOND <= (E + D) * STRETCH
    <2>1. (a - t) * SECOND <= E * STRETCH
      BY DEF E
    <2>2. a * SECOND = (a - t) * SECOND + t * SECOND
      OBVIOUS
    <2>3. (E + D) * STRETCH = E * STRETCH + D * STRETCH
      BY <1>1
    <2> QED
      BY <1>1, <1>4, <2>1, <2>2, <2>3
  <1>6. E + t <= a
    BY DEF E
  <1> QED
    BY <1>1, <1>2, <1>5, <1>6 DEF d

(***************************************************************************)
(* No relay runs at first.                                                 *)
(***************************************************************************)
LEMMA InitInv == Init => Inv
  <1> SUFFICES ASSUME Init PROVE Inv
    OBVIOUS
  <1>1. TypeOK
    <2>1. /\ slow \in BOOLEAN /\ blacked \in BOOLEAN /\ downgrade \in BOOLEAN
          /\ BLACKLIST \in BOOLEAN /\ BLOCKLIST \in BOOLEAN
      BY Zenon DEF Init, Idle
    <2> QED
      BY <2>1, ConstantsAssumption, Numbers DEF Init, Idle, TypeOK
  <1> QED
    BY <1>1, Numbers DEF Init, Idle, Inv, IdleInv, SilenceInv, LookInv, BlackedInv, LockInv, AgeInv, Capped

(***************************************************************************)
(* Every step keeps the types.                                             *)
(***************************************************************************)
LEMMA TypeStep == ASSUME TypeOK, [Next]_vars PROVE TypeOK'
  <1> USE Numbers DEF TypeOK
  <1>1. ASSUME Start PROVE TypeOK'
    BY <1>1 DEF Start, settings
  <1>2. ASSUME End PROVE TypeOK'
    <2>1. slow' \in BOOLEAN /\ blacked' \in BOOLEAN /\ downgrade' \in BOOLEAN
      BY <1>2, Zenon DEF End
    <2> QED
      BY <1>2, <2>1 DEF End, settings
  <1>3. ASSUME NEW n \in Sizes, Recv(n) PROVE TypeOK'
    <2>1. slow' \in BOOLEAN
      BY <1>3, Zenon DEF Recv
    <2> QED
      BY <1>3, <2>1 DEF Recv, settings
  <1>4. ASSUME Charged PROVE TypeOK'
    <2>1. slow' \in BOOLEAN
      BY <1>4, Zenon DEF Charged
    <2> QED
      BY <1>4, <2>1, ConstantsAssumption DEF Charged, settings
  <1>5. ASSUME Sent \/ NoLook \/ Measure \/ NotBlocked PROVE TypeOK'
    BY <1>5 DEF Sent, NoLook, Measure, NotBlocked, settings
  <1>6. ASSUME TimerTick PROVE TypeOK'
    BY <1>6 DEF TimerTick, settings
  <1>7. ASSUME Look PROVE TypeOK'
    <2>1. elapsed + measured \div MS \in Nat
      BY Truncates
    <2> QED
      BY <1>7, <2>1 DEF Look, Capped, settings
  <1>14. ASSUME Judge PROVE TypeOK'
    <2>1. downgrade' \in BOOLEAN
      BY <1>14, Zenon DEF Judge
    <2> QED
      BY <1>14, <2>1 DEF Judge, settings
  <1>8. ASSUME SetBlacklist \/ SetBlocklist PROVE TypeOK'
    <2>1. BLACKLIST' \in BOOLEAN /\ BLOCKLIST' \in BOOLEAN
      BY <1>8, Zenon DEF SetBlacklist, SetBlocklist
    <2> QED
      BY <1>8, <2>1 DEF SetBlacklist, SetBlocklist, task
  <1>9. ASSUME CheckParams PROVE TypeOK'
    BY <1>9, ConstantsAssumption DEF CheckParams, task
  <1>10. ASSUME NEW v \in Thresholds, SetThreshold(v) PROVE TypeOK'
    BY <1>10 DEF SetThreshold, task
  <1>11. ASSUME NEW v \in StartChecks, SetStartCheck(v) PROVE TypeOK'
    BY <1>11 DEF SetStartCheck, task
  <1>12. ASSUME Tick PROVE TypeOK'
    BY <1>12 DEF Tick, Capped, task, settings
  <1>13. ASSUME UNCHANGED vars PROVE TypeOK'
    BY <1>13 DEF vars, task, settings
  <1> QED
    BY <1>1, <1>2, <1>3, <1>4, <1>5, <1>6, <1>7, <1>8, <1>9, <1>10, <1>11, <1>12, <1>13, <1>14
       DEF Next, Closed, SendFails, Timeout, Blocked

(***************************************************************************)
(* Every step keeps what is known about time.                              *)
(***************************************************************************)
LEMMA TimeStep ==
    ASSUME Inv, [Next]_vars
    PROVE (IdleInv /\ SilenceInv /\ LookInv /\ BlackedInv /\ LockInv)'
  <1> DEFINE Time == IdleInv /\ SilenceInv /\ LookInv /\ BlackedInv /\ LockInv
  <1> USE Numbers DEF Inv, TypeOK, IdleInv, SilenceInv, LookInv, BlackedInv, LockInv, Capped
  <1>1. ASSUME Start PROVE Time'
    BY <1>1 DEF Start, settings
  <1>2. ASSUME End PROVE Time'
    BY <1>2 DEF End
  <1>3. ASSUME NEW n \in Sizes, Recv(n) PROVE Time'
    BY <1>3 DEF Recv, settings
  <1>4. ASSUME Charged \/ Sent \/ NoLook \/ Measure \/ NotBlocked PROVE Time'
    BY <1>4 DEF Charged, Sent, NoLook, Measure, NotBlocked, settings
  <1>5. ASSUME TimerTick PROVE Time'
    BY <1>5 DEF TimerTick, TimedOut, settings
  <1>6. ASSUME Look \/ Judge PROVE Time'
    BY <1>6 DEF Look, Judge, settings
  <1>7. ASSUME SetBlacklist PROVE Time'
    BY <1>7 DEF SetBlacklist, task
  <1>8. ASSUME SetBlocklist \/ CheckParams PROVE Time'
    BY <1>8 DEF SetBlocklist, CheckParams, task
  <1>9. ASSUME NEW v, SetThreshold(v) \/ SetStartCheck(v) PROVE Time'
    BY <1>9 DEF SetThreshold, SetStartCheck, task
  <1>10. ASSUME Tick PROVE Time'
    <2>1. CASE pc = "none"
      BY <1>10, <2>1 DEF Tick, task, settings
    <2>2. CASE pc # "none"
      <3>1. SilenceInv'
        BY <1>10, <2>2 DEF Tick
      <3>2. LookInv'
        BY <1>10, <2>2 DEF Tick, Busy
      <3>3. BlackedInv'
        BY <1>10, <2>2 DEF Tick, settings
      <3>4. LockInv'
        BY <1>10, <2>2 DEF Tick, Busy
      <3> QED
        BY <1>10, <2>2, <3>1, <3>2, <3>3, <3>4 DEF Tick
    <2> QED
      BY <2>1, <2>2
  <1>11. ASSUME UNCHANGED vars PROVE Time'
    BY <1>11 DEF vars, task, settings
  <1> QED
    BY <1>1, <1>2, <1>3, <1>4, <1>5, <1>6, <1>7, <1>8, <1>9, <1>10, <1>11
       DEF Next, Closed, SendFails, Timeout, Blocked

(***************************************************************************)
(* Every step keeps what is known about the relay's age.                   *)
(***************************************************************************)
LEMMA AgeStep == ASSUME Inv, [Next]_vars PROVE AgeInv'
  <1> USE Numbers DEF Inv, TypeOK
  <1>1. CASE UNCHANGED <<tm, elapsed, age>>
    BY <1>1 DEF AgeInv
  <1>2. CASE End
    BY <1>2 DEF End, AgeInv
  <1>3. CASE Look
    <2>1. CASE age < MAX_AGE
      <3> DEFINE e == elapsed + measured \div MS
      <3>1. e * MS <= age /\ age * SECOND <= e * MS * STRETCH
        <4>1. /\ elapsed \in Nat /\ measured \in Nat /\ tm \in Nat /\ age \in Nat
              /\ SECOND <= measured /\ measured <= tm /\ tm <= measured + LOCK_WAIT
              /\ elapsed * MS + tm <= age /\ (age - tm) * SECOND <= elapsed * MS * STRETCH
          BY <1>3, <2>1 DEF Look, LockInv, AgeInv
        <4> QED
          BY <4>1, LookAdds, Zenon
      <3>2. e \in Nat /\ e <= e * MS
        <4>1. e \in Nat
          BY Truncates
        <4> QED
          BY <4>1, TimesGrows
      <3>3. elapsed' = e /\ tm' = 0 /\ age' = age
        BY <1>3, <2>1, <3>1, <3>2 DEF Look, Capped
      <3> QED
        BY <3>1, <3>2, <3>3 DEF AgeInv
    <2>2. CASE ~ (age < MAX_AGE)
      BY <1>3, <2>2 DEF Look, AgeInv
    <2> QED
      BY <2>1, <2>2
  <1>4. CASE Tick
    <2>1. CASE pc = "none"
      BY <1>1, <1>4, <2>1 DEF Tick, task
    <2>2. CASE pc # "none" /\ age + 1 < MAX_AGE
      <3>1. tm <= age
        BY <2>2 DEF AgeInv
      <3>2. elapsed' = elapsed /\ tm' = tm + 1 /\ age' = age + 1
        BY <1>4, <2>2, <3>1 DEF Tick, Capped
      <3>3. age' - tm' = age - tm
        BY <3>2
      <3> QED
        BY <2>2, <3>2, <3>3 DEF AgeInv
    <2>3. CASE pc # "none" /\ ~ (age + 1 < MAX_AGE)
      BY <1>4, <2>3 DEF Tick, Capped, AgeInv
    <2> QED
      BY <2>1, <2>2, <2>3
  <1> QED
    BY <1>1, <1>2, <1>3, <1>4
       DEF Next, Start, Closed, Recv, Charged, Sent, SendFails, TimerTick, Timeout, NoLook,
           Measure, Blocked, NotBlocked, Judge, SetBlacklist, SetBlocklist, CheckParams,
           SetThreshold, SetStartCheck, task, vars

(***************************************************************************)
(* Inv is inductive.                                                       *)
(***************************************************************************)
LEMMA InvStep == Inv /\ [Next]_vars => Inv'
  BY TypeStep, TimeStep, AgeStep DEF Inv

(***************************************************************************)
(* The state of a relay and the settings always have the values TypeOK     *)
(* says.                                                                   *)
(***************************************************************************)
THEOREM Typed == Spec => []TypeOK
  <1>1. Inv => TypeOK
    BY DEF Inv
  <1> QED
    BY InitInv, InvStep, <1>1, PTL DEF Spec

(***************************************************************************)
(* relay: a message is charged as BLACKLIST has asked for STALE, for every *)
(* period of the timer.                                                    *)
(***************************************************************************)
THEOREM BlacklistIsFollowed == Spec => BlacklistFollowed
  <1> DEFINE A == pc = "select" /\ pc' = "charge" /\ age >= STALE /\ since >= STALE
                    => slow' = (BLACKLIST \/ downgrade)
  <1>1. Inv /\ [Next]_vars => [A]_vars
    <2> SUFFICES ASSUME Inv, Next, pc = "select", pc' = "charge", age >= STALE, since >= STALE
                 PROVE slow' = (BLACKLIST \/ downgrade)
      BY DEF vars
    <2>1. PICK n \in Sizes : Recv(n)
      BY DEF Next, Start, Closed, End, Charged, Sent, SendFails, TimerTick, Timeout, NoLook,
             Measure, Blocked, NotBlocked, Look, Judge, SetBlacklist, SetBlocklist, CheckParams, SetThreshold,
             SetStartCheck, Tick, task
    <2>2. blacked = BLACKLIST
      BY Numbers DEF Inv, TypeOK, LookInv, BlackedInv
    <2> QED
      BY <2>1, <2>2 DEF Recv
  <1> QED
    BY InitInv, InvStep, <1>1, PTL DEF Spec, BlacklistFollowed

(***************************************************************************)
(* relay: a message is waited for no longer than LONGEST_SILENCE.          *)
(***************************************************************************)
THEOREM SilenceIsBounded == Spec => SilenceBounded
  <1>1. Inv /\ [Next]_vars
          => [pc = "select" /\ silence' > silence => silence' <= LONGEST_SILENCE]_vars
    <2> SUFFICES ASSUME Inv, Next, pc = "select", silence' > silence
                 PROVE silence' <= LONGEST_SILENCE
      BY DEF vars
    <2>1. Tick
      BY DEF Inv, TypeOK, Next, Start, Closed, End, Recv, Charged, Sent, SendFails, TimerTick,
             Timeout, NoLook, Measure, Blocked, NotBlocked, Look, Judge, SetBlacklist, SetBlocklist, CheckParams,
             SetThreshold, SetStartCheck, task
    <2> QED
      BY <2>1, Numbers DEF Inv, TypeOK, SilenceInv, Tick, Busy, Capped
  <1> QED
    BY InitInv, InvStep, <1>1, PTL DEF Spec, SilenceBounded

(***************************************************************************)
(* relay: a downgrade follows from the average over the relay's true age,  *)
(* with what truncation and the locks take from elapsed, and an average    *)
(* above the threshold is followed by a downgrade.                         *)
(***************************************************************************)
THEOREM DowngradeIsFair == Spec => DowngradeFair
  <1> DEFINE A == /\ ~ downgrade /\ downgrade' /\ age < MAX_AGE =>
                       total * MS * STRETCH > (age - tm) * SECOND * downgrade_threshold
                  /\ Judge /\ elapsed > DOWNGRADE_START_CHECK /\ age < MAX_AGE =>
                       (total * MS > age * downgrade_threshold => downgrade')
                  /\ downgrade /\ ~ downgrade' => pc' = "none"
  <1>1. Inv /\ [Next]_vars => [A]_vars
    <2> SUFFICES ASSUME Inv, Next PROVE A
      BY DEF vars
    <2>1. CASE Judge
      <3> USE Numbers
      <3> DEFINE thr == downgrade_threshold
      <3>1. /\ total \in Nat /\ elapsed \in Nat /\ thr \in Nat /\ age \in Nat /\ tm \in Nat
            /\ downgrade \in BOOLEAN
        BY ConstantsAssumption DEF Inv, TypeOK
      <3> HIDE DEF thr
      <3>2. Exceeds <=> total > elapsed * thr
        BY DEF Exceeds, thr
      <3>3. ASSUME age < MAX_AGE, total > elapsed * thr
            PROVE  total * MS * STRETCH > (age - tm) * SECOND * thr
        <4> DEFINE c == MS * STRETCH
        <4>1. c \in Nat /\ c > 0 /\ elapsed * thr \in Nat
          BY <3>1
        <4>2. (elapsed * thr + 1) * c <= total * c
          BY <3>1, <3>3, <4>1, TimesGrows
        <4>3. (elapsed * thr) * c < total * c
          <5>1. (elapsed * thr + 1) * c = (elapsed * thr) * c + c
            BY <3>1, <4>1
          <5>2. (elapsed * thr) * c \in Nat /\ total * c \in Nat
            BY <3>1, <4>1
          <5> HIDE DEF c
          <5> QED
            BY <4>1, <4>2, <5>1, <5>2
        <4>4. tm <= age /\ (age - tm) * SECOND <= elapsed * MS * STRETCH
          BY <3>1, <3>3 DEF Inv, AgeInv
        <4>5. (age - tm) * SECOND \in Nat /\ elapsed * MS * STRETCH \in Nat
          BY <3>1, <4>4
        <4>6. ((age - tm) * SECOND) * thr <= (elapsed * MS * STRETCH) * thr
          BY <3>1, <4>4, <4>5, TimesGrows
        <4>7. (elapsed * MS * STRETCH) * thr = (elapsed * thr) * c
          BY <3>1
        <4>8. total * MS * STRETCH = total * c
          BY <3>1
        <4> HIDE DEF c
        <4> QED
          BY <3>1, <4>1, <4>3, <4>5, <4>6, <4>7, <4>8
      <3>4. ASSUME age < MAX_AGE, total * MS > age * thr
            PROVE  total > elapsed * thr
        <4>1. elapsed * MS <= age
          BY <3>1, <3>4 DEF Inv, AgeInv
        <4>2. (elapsed * MS) * thr <= age * thr
          BY <3>1, <4>1, TimesGrows
        <4>3. (elapsed * thr) * MS = (elapsed * MS) * thr
          BY <3>1
        <4>4. (elapsed * thr) * MS < total * MS
          BY <3>1, <3>4, <4>2, <4>3
        <4>5. elapsed * thr \in Nat
          BY <3>1
        <4>6. CASE total <= elapsed * thr
          BY <3>1, <4>4, <4>5, <4>6, TimesGrows
        <4> QED
          BY <3>1, <4>5, <4>6
      <3>5. downgrade' = (downgrade \/ (elapsed > DOWNGRADE_START_CHECK /\ Exceeds))
        BY <2>1 DEF Judge
      <3> QED
        BY <3>2, <3>3, <3>4, <3>5, Zenon DEF thr
    <2>2. CASE End
      BY <2>2 DEF End, Judge
    <2>3. CASE ~ Judge /\ ~ End
      BY <2>3 DEF Next, Start, Closed, Recv, Charged, Sent, SendFails, TimerTick, Timeout,
             NoLook, Measure, Blocked, NotBlocked, Look, SetBlacklist, SetBlocklist, CheckParams,
             SetThreshold, SetStartCheck, Tick, task
    <2> QED
      BY <2>1, <2>2, <2>3
  <1> QED
    BY InitInv, InvStep, <1>1, PTL DEF Spec, DowngradeFair
=============================================================================

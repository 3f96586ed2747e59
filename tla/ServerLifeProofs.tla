-------------------------- MODULE ServerLifeProofs ---------------------------
(***************************************************************************)
(* Proofs about ServerLife, for every set of keys and every LIMIT.         *)
(***************************************************************************)
EXTENDS ServerLife, TLAPS

Writing == {"write_pub", "create_sk", "write_sk"}

\* Where a server is tells what the files hold.
FileInv ==
    \A s \in Servers :
        /\ pc[s] \in {"write_pub", "create_sk"} => sk = Absent
        /\ pc[s] = "write_sk" => sk = Empty
        /\ pc[s] \in {"create_sk", "write_sk"} => pub = key[s]
        /\ pc[s] = "bind" => sk \in Keys /\ key[s] = sk

\* At most one server generates, and hbbr does not wait for nothing.
TurnInv ==
    /\ sk = Absent /\ pc["hbbs"] \in Generating =>
          pc["hbbr"] \notin Generating /\ (pc["hbbr"] = "wait" => ahead)
    /\ ~ (pc["hbbs"] \in Writing /\ pc["hbbr"] \in Writing)

KeyInv ==
    /\ FileInv
    /\ TurnInv
    /\ sk \in Keys => pub = sk
    /\ \A k \in served : sk = k

\* A test that has kept up has sent a probe for every second but one.
ProbeInv ==
    ~ stalled => quiet <= missed + (IF due THEN 1 ELSE 0)

\* Whoever writes has a key.
HasKey == \A s \in Servers : pc[s] \in Writing => key[s] \in Keys
TypeInv == TypeOK /\ HasKey

Inv == TypeInv /\ (~ faulty /\ ~ late => KeyInv) /\ ProbeInv

-----------------------------------------------------------------------------
(***************************************************************************)
(* The processes, the files and the test start in a state of Inv.          *)
(***************************************************************************)
LEMMA InitInv == Init => Inv
  <1> SUFFICES ASSUME Init PROVE Inv
    OBVIOUS
  <1> USE DEF Init
  <1>1. TypeInv
    BY DEF TypeInv, TypeOK, HasKey, Generating, Writing
  <1>2. KeyInv
    BY ConstantsAssumption DEF KeyInv, FileInv, TurnInv, Generating, Writing, Servers
  <1>3. ProbeInv
    BY DEF ProbeInv
  <1> QED
    BY <1>1, <1>2, <1>3 DEF Inv

(***************************************************************************)
(* Goes leaves ahead a Boolean.                                            *)
(***************************************************************************)
LEMMA GoesAhead == ASSUME NEW s, NEW p, Goes(s, p) PROVE ahead' \in BOOLEAN
  BY Zenon DEF Goes

(***************************************************************************)
(* The end of a process keeps the types.                                   *)
(***************************************************************************)
LEMMA EndsType == ASSUME TypeInv, NEW s \in Servers, Ends(s) PROVE TypeInv'
  <1>1. ahead' \in BOOLEAN
    BY GoesAhead DEF Ends
  <1>2. /\ due' \in BOOLEAN /\ probe' \in BOOLEAN
        /\ answer' \in BOOLEAN /\ stalled' \in BOOLEAN
    BY Zenon DEF Ends, NoWatchdog, watchdog, TypeInv, TypeOK
  <1> QED
    BY <1>1, <1>2 DEF TypeInv, TypeOK, HasKey, Ends, Goes, NoWatchdog, Generating, Writing,
                Servers, files, watchdog

(***************************************************************************)
(* Every step of gen_sk, start and test_hbbs keeps the variables' types.   *)
(***************************************************************************)
LEMMA TypeStep == ASSUME TypeInv, [Next]_vars PROVE TypeInv'
  <1> USE DEF TypeInv, TypeOK, HasKey
  <1>1. ASSUME NEW s \in Servers, Start(s) PROVE TypeInv'
    <2>1. ahead' \in BOOLEAN /\ late' \in BOOLEAN
      BY <1>1, Zenon DEF Start
    <2>2. pc' = [pc EXCEPT ![s] = "wait"] \/ pc' = [pc EXCEPT ![s] = "open"]
      BY <1>1 DEF Start
    <2> QED
      BY <1>1, <2>1, <2>2 DEF Start, Generating, Writing, files, watchdog
  <1>2. ASSUME NEW s \in Servers, Open(s) PROVE TypeInv'
    <2>1. ahead' \in BOOLEAN
      BY <1>2, GoesAhead DEF Open
    <2> QED
      BY <1>2, <2>1 DEF Open, Goes, Generating, Writing, Servers, watchdog
  <1>3. ASSUME NEW s \in Servers, Read(s) PROVE TypeInv'
    <2>1. ahead' \in BOOLEAN
      BY <1>3, GoesAhead DEF Read
    <2> QED
      BY <1>3, <2>1 DEF Read, Goes, Generating, Writing, Servers, files, watchdog
  <1>4. ASSUME NEW s \in Servers, WritePub(s) PROVE TypeInv'
    <2>1. ahead' \in BOOLEAN
      BY <1>4, GoesAhead DEF WritePub
    <2> QED
      BY <1>4, <2>1 DEF WritePub, Goes, Generating, Writing, Servers, watchdog
  <1>5. ASSUME NEW s \in Servers, CreateSk(s) PROVE TypeInv'
    <2>1. ahead' \in BOOLEAN
      BY <1>5, GoesAhead DEF CreateSk
    <2> QED
      BY <1>5, <2>1 DEF CreateSk, Goes, Generating, Writing, Servers, watchdog
  <1>6. ASSUME NEW s \in Servers, WriteSk(s) PROVE TypeInv'
    <2>1. ahead' \in BOOLEAN
      BY <1>6, GoesAhead DEF WriteSk
    <2> QED
      BY <1>6, <2>1 DEF WriteSk, Goes, Generating, Writing, Servers, watchdog
  <1>7. ASSUME NEW s \in Servers, OpenFails(s) PROVE TypeInv'
    <2>1. ahead' \in BOOLEAN
      BY <1>7, GoesAhead DEF OpenFails
    <2> QED
      BY <1>7, <2>1 DEF OpenFails, Goes, Generating, Writing, Servers, watchdog
  <1>8. ASSUME NEW s \in Servers, FileFails(s) PROVE TypeInv'
    <2>1. ahead' \in BOOLEAN
      BY <1>8, GoesAhead DEF FileFails
    <2> QED
      BY <1>8, <2>1 DEF FileFails, Goes, Generating, Writing, Servers, watchdog
  <1>9. ASSUME NEW s \in Servers, Bind(s) PROVE TypeInv'
    <2>1. ahead' \in BOOLEAN
      BY <1>9, GoesAhead DEF Bind
    <2>2. due' \in BOOLEAN
      BY <1>9, Zenon DEF Bind, watchdog
    <2>3. socket' \in {"none", "ok", "dead"} /\ test' \in {"off", "v6", "v4"}
      BY <1>9, ConstantsAssumption DEF Bind, watchdog
    <2> QED
      BY <1>9, <2>1, <2>2, <2>3 DEF Bind, Goes, Generating, Writing, Servers, files, watchdog
  <1>10. ASSUME NEW s \in Servers, Killed(s) PROVE TypeInv'
    BY <1>10, EndsType DEF Killed
  <1>11. ASSUME WaitOver PROVE TypeInv'
    <2>1. ahead' \in BOOLEAN
      BY <1>11, GoesAhead DEF WaitOver
    <2> QED
      BY <1>11, <2>1 DEF WaitOver, Goes, Generating, Writing, Servers, files, watchdog
  <1>12. ASSUME UdpFails \/ UdpDies \/ Answer \/ Receive PROVE TypeInv'
    <2>1. probe' \in BOOLEAN /\ answer' \in BOOLEAN /\ stalled' \in BOOLEAN
      BY <1>12, Zenon DEF UdpFails, UdpDies, Answer, Receive
    <2> QED
      BY <1>12, <2>1 DEF UdpFails, UdpDies, Answer, Receive, files
  <1>13. ASSUME Probe PROVE TypeInv'
    <2>1. probe' \in BOOLEAN /\ due' \in BOOLEAN
      BY <1>13, Zenon DEF Probe
    <2> QED
      BY <1>13, <2>1 DEF Probe, files
  <1>14. ASSUME Second PROVE TypeInv'
    <2>1. stalled' \in BOOLEAN
      BY <1>14, Zenon DEF Second
    <2> QED
      BY <1>14, <2>1 DEF Second, files
  <1>15. ASSUME TestFails PROVE TypeInv'
    <2>1. CASE test = "v6"
      <3>1. probe' \in BOOLEAN /\ answer' \in BOOLEAN /\ stalled' \in BOOLEAN
        BY <1>15, <2>1, Zenon DEF TestFails
      <3> QED
        BY <1>15, <2>1, <3>1 DEF TestFails, files
    <2>2. CASE test # "v6"
      BY <1>15, <2>2, EndsType DEF TestFails, Servers
    <2> QED
      BY <2>1, <2>2
  <1>16. ASSUME UNCHANGED vars PROVE TypeInv'
    BY <1>16 DEF vars, files, watchdog
  <1> QED
    BY <1>1, <1>2, <1>3, <1>4, <1>5, <1>6, <1>7, <1>8, <1>9, <1>10, <1>11, <1>12, <1>13,
       <1>14, <1>15, <1>16 DEF Next, GiveUp, ProbeFails

(***************************************************************************)
(* Without a fault and without a late hbbs, at most one server generates,  *)
(* and what it has written is what the others read.                        *)
(***************************************************************************)
LEMMA KeyStep ==
    ASSUME TypeInv, ~ faulty', ~ late', KeyInv, [Next]_vars
    PROVE KeyInv'
  <1> USE ConstantsAssumption DEF TypeInv, TypeOK, HasKey, KeyInv, FileInv, TurnInv, Writing,
          Generating, Servers
  <1>1. ASSUME NEW s \in Servers, Start(s) PROVE KeyInv'
    <2>1. CASE s = "hbbs"
      BY <1>1, <2>1 DEF Start, Waits, files
    <2>2. CASE s = "hbbr"
      BY <1>1, <2>2 DEF Start, Waits, files
    <2> QED
      BY <2>1, <2>2
  <1>2. ASSUME NEW s \in Servers, Open(s) PROVE KeyInv'
    <2>1. CASE s = "hbbs"
      BY <1>2, <2>1 DEF Open, Goes
    <2>2. CASE s = "hbbr"
      BY <1>2, <2>2 DEF Open, Goes
    <2> QED
      BY <2>1, <2>2
  <1>3. ASSUME NEW s \in Servers, Read(s) PROVE KeyInv'
    <2>1. CASE s = "hbbs"
      BY <1>3, <2>1 DEF Read, Goes, files
    <2>2. CASE s = "hbbr"
      BY <1>3, <2>2 DEF Read, Goes, files
    <2> QED
      BY <2>1, <2>2
  <1>4. ASSUME NEW s \in Servers, WritePub(s) PROVE KeyInv'
    <2>1. CASE s = "hbbs"
      BY <1>4, <2>1 DEF WritePub, Goes
    <2>2. CASE s = "hbbr"
      BY <1>4, <2>2 DEF WritePub, Goes
    <2> QED
      BY <2>1, <2>2
  <1>5. ASSUME NEW s \in Servers, CreateSk(s) PROVE KeyInv'
    <2>1. CASE s = "hbbs"
      BY <1>5, <2>1 DEF CreateSk, Goes
    <2>2. CASE s = "hbbr"
      BY <1>5, <2>2 DEF CreateSk, Goes
    <2> QED
      BY <2>1, <2>2
  <1>6. ASSUME NEW s \in Servers, WriteSk(s) PROVE KeyInv'
    <2>1. CASE s = "hbbs"
      BY <1>6, <2>1 DEF WriteSk, Goes
    <2>2. CASE s = "hbbr"
      BY <1>6, <2>2 DEF WriteSk, Goes
    <2> QED
      BY <2>1, <2>2
  <1>7. ASSUME NEW s \in Servers, Bind(s) PROVE KeyInv'
    <2>1. CASE s = "hbbs"
      BY <1>7, <2>1 DEF Bind, Goes, files
    <2>2. CASE s = "hbbr"
      BY <1>7, <2>2 DEF Bind, Goes, files
    <2> QED
      BY <2>1, <2>2
  <1>8. ASSUME NEW s \in Servers, OpenFails(s) \/ FileFails(s) PROVE KeyInv'
    BY <1>8 DEF OpenFails, FileFails
  <1>9. ASSUME NEW s \in Servers, Ends(s) PROVE KeyInv'
    BY <1>9 DEF Ends, Goes, files
  <1>10. ASSUME WaitOver PROVE KeyInv'
    BY <1>10 DEF WaitOver, Goes, files
  <1>11. ASSUME UNCHANGED <<files, pc, key, ahead, served, late>> PROVE KeyInv'
    BY <1>11 DEF files
  <1>12. ASSUME UdpFails \/ UdpDies \/ Answer \/ Probe \/ Receive \/ Second PROVE KeyInv'
    BY <1>11, <1>12 DEF UdpFails, UdpDies, Answer, Probe, Receive, Second
  <1>13. ASSUME TestFails PROVE KeyInv'
    BY <1>9, <1>11, <1>13 DEF TestFails
  <1> QED
    BY <1>1, <1>2, <1>3, <1>4, <1>5, <1>6, <1>7, <1>8, <1>9, <1>10, <1>11, <1>12, <1>13
       DEF Next, Killed, GiveUp, ProbeFails, vars

(***************************************************************************)
(* A fault or a late start is never forgotten.                             *)
(***************************************************************************)
LEMMA HistoryStep == ASSUME TypeInv, [Next]_vars, ~ faulty', ~ late' PROVE ~ faulty /\ ~ late
  BY DEF TypeInv, TypeOK, Next, Start, Open, Read, WritePub, CreateSk, WriteSk, OpenFails,
         FileFails, Bind, Killed, Ends, WaitOver, UdpFails, UdpDies, Answer, Probe, Receive,
         GiveUp, ProbeFails, TestFails, Second, vars, files

(***************************************************************************)
(* A test_hbbs that keeps up sends a probe in every second.                *)
(***************************************************************************)
LEMMA ProbeStep == ASSUME TypeInv, ProbeInv, [Next]_vars PROVE ProbeInv'
  <1> USE DEF TypeInv, TypeOK, ProbeInv
  <1>1. ASSUME UNCHANGED watchdog PROVE ProbeInv'
    BY <1>1 DEF watchdog
  <1>2. ASSUME NEW s \in Servers, Ends(s) PROVE ProbeInv'
    BY <1>1, <1>2 DEF Ends, NoWatchdog
  <1>3. ASSUME NEW s \in Servers, Bind(s) PROVE ProbeInv'
    BY <1>1, <1>3 DEF Bind
  <1>4. ASSUME UdpFails \/ UdpDies \/ Answer PROVE ProbeInv'
    BY <1>4 DEF UdpFails, UdpDies, Answer
  <1>5. ASSUME Probe PROVE ProbeInv'
    BY <1>5 DEF Probe
  <1>6. ASSUME Receive PROVE ProbeInv'
    BY <1>6 DEF Receive
  <1>7. ASSUME Second PROVE ProbeInv'
    BY <1>7 DEF Second
  <1>8. ASSUME TestFails PROVE ProbeInv'
    <2>1. CASE test = "v6"
      BY <1>8, <2>1 DEF TestFails
    <2>2. CASE test # "v6"
      BY <1>2, <1>8, <2>2 DEF TestFails, Servers
    <2> QED
      BY <2>1, <2>2
  <1> QED
    BY <1>1, <1>2, <1>3, <1>4, <1>5, <1>6, <1>7, <1>8
       DEF Next, Killed, Start, Open, Read, WritePub, CreateSk, WriteSk, OpenFails, FileFails,
           WaitOver, GiveUp, ProbeFails, vars

(***************************************************************************)
(* Inv is inductive.                                                       *)
(***************************************************************************)
LEMMA InvStep == Inv /\ [Next]_vars => Inv'
  BY TypeStep, KeyStep, HistoryStep, ProbeStep DEF Inv

(***************************************************************************)
(* The files, the processes and the test always have the values TypeOK     *)
(* says.                                                                   *)
(***************************************************************************)
THEOREM Typed == Spec => []TypeOK
  <1>1. Inv => TypeOK
    BY DEF Inv, TypeInv
  <1> QED
    BY InitInv, InvStep, <1>1, PTL DEF Spec

(***************************************************************************)
(* gen_sk: over all crashes and restarts both servers use one key, the one *)
(* of the public file, if no file call fails and hbbs is not late.         *)
(***************************************************************************)
THEOREM OneKeyForEver == Spec => []OneKey
  <1>1. Inv => OneKey
    BY DEF Inv, TypeInv, TypeOK, KeyInv, OneKey
  <1> QED
    BY InitInv, InvStep, <1>1, PTL DEF Spec

(***************************************************************************)
(* test_hbbs ends only a process that left LIMIT probes unanswered, unless *)
(* the test itself was held up.                                            *)
(***************************************************************************)
THEOREM TheDeafEnd == Spec => []EndsOnlyTheDeaf
  <1>1. Inv => EndsOnlyTheDeaf
    BY ConstantsAssumption DEF Inv, TypeInv, TypeOK, ProbeInv, EndsOnlyTheDeaf, Silent
  <1> QED
    BY InitInv, InvStep, <1>1, PTL DEF Spec
=============================================================================

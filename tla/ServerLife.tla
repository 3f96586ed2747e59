----------------------------- MODULE ServerLife ------------------------------
(***************************************************************************)
(* The lives of the processes hbbs and hbbr: how each comes by the key of  *)
(* the file id_ed25519 (gen_sk of common.rs), binds its sockets, binds     *)
(* them again when one fails, and how hbbs ends itself when its own test   *)
(* gets no answer (start and test_hbbs of rendezvous_server.rs).  Either   *)
(* may be killed between any two steps, and a supervisor starts it again.  *)
(*                                                                         *)
(* Both servers are asked to use the key file; one that is given a key, or *)
(* an hbbr that is given none, does not touch the file.  A key is a pair   *)
(* and stands for both halves.  Writing the public file is one step: its   *)
(* content is that of the last writer in any case, and no server reads it. *)
(*                                                                         *)
(* Operators named Mut_... are never used: each is a plausible bug in the  *)
(* definition that follows, and shows that a property can fail.            *)
(***************************************************************************)
EXTENDS Integers

CONSTANTS
    Keys,       \* key pairs that gen_keypair may return
    Absent,     \* no such file
    Empty,      \* the file is created but not written
    None,       \* the server has no key
    LIMIT,      \* whole seconds without an answer that test_hbbs bears (12)
    Addresses   \* where test_hbbs may begin: subset of off, v6, v4

ASSUME ConstantsAssumption ==
    /\ Absent \notin Keys /\ Empty \notin Keys /\ Absent # Empty /\ None \notin Keys
    /\ LIMIT \in Nat /\ Addresses \subseteq {"off", "v6", "v4"}

Servers == {"hbbs", "hbbr"}

VARIABLES
    sk, pub,    \* the files id_ed25519 and id_ed25519.pub
    pc,         \* how far each process is
    key,        \* the key each generated or read
    used,       \* history: keys generated so far
    ahead,      \* hbbs was about to generate when hbbr began its wait, and still is
    socket,     \* the UDP socket of hbbs: none, ok, dead
    test,       \* the address test_hbbs uses, off if it does not run
    quiet,      \* seconds since last_time_recv
    due,        \* a tick of its timer is due
    probe,      \* a RegisterPeer of test_hbbs has not been handled
    answer,     \* its answer has not been received
    served,     \* history: keys that servers came up with
    late,       \* history: hbbs began while hbbr was already about to generate, or was
                \* still generating when the 300 ms wait of hbbr ended
    faulty,     \* history: a call on a key file failed
    missed,     \* history: probes sent to the address since its last answer
    stalled     \* history: test_hbbs has not kept up since then

files == <<sk, pub, used, faulty>>
watchdog == <<socket, test, quiet, due, probe, answer, missed, stalled>>
vars == <<files, pc, key, ahead, watchdog, served, late>>

\* Between exists() and the end of gen_sk.
Generating == {"open", "write_pub", "create_sk", "write_sk"}

TypeOK ==
    /\ sk \in Keys \cup {Absent, Empty} /\ pub \in Keys \cup {Absent, Empty}
    /\ pc \in [Servers -> Generating \cup {"down", "wait", "read", "bind", "up"}]
    /\ key \in [Servers -> Keys \cup {None}]
    /\ used \subseteq Keys /\ served \subseteq Keys
    /\ ahead \in BOOLEAN /\ late \in BOOLEAN /\ faulty \in BOOLEAN
    /\ socket \in {"none", "ok", "dead"} /\ test \in {"off", "v6", "v4"}
    /\ quiet \in Nat /\ missed \in Nat
    /\ due \in BOOLEAN /\ probe \in BOOLEAN /\ answer \in BOOLEAN /\ stalled \in BOOLEAN

Init ==
    /\ sk = Absent /\ pub = Absent
    /\ pc = [s \in Servers |-> "down"] /\ key = [s \in Servers |-> None]
    /\ used = {} /\ served = {}
    /\ ahead = FALSE /\ late = FALSE /\ faulty = FALSE
    /\ socket = "none" /\ test = "off" /\ quiet = 0 /\ missed = 0
    /\ due = FALSE /\ probe = FALSE /\ answer = FALSE /\ stalled = FALSE

-----------------------------------------------------------------------------
(* gen_sk *)

\* s is at p from now on.
Goes(s, p) ==
    /\ pc' = [pc EXCEPT ![s] = p]
    /\ ahead' = (ahead /\ (s = "hbbs" => p \in Generating))

Mut_NobodyWaits(s) == FALSE

\* hbbs calls gen_sk(0), hbbr gen_sk(300).
Waits(s) == s = "hbbr" /\ sk = Absent

Start(s) ==
    /\ pc[s] = "down"
    /\ pc' = [pc EXCEPT ![s] = IF Waits(s) THEN "wait" ELSE "open"]
    /\ ahead' = (s = "hbbr" /\ pc["hbbs"] \in Generating)
    /\ late' = \/ late
               \/ s = "hbbs" /\ sk = Absent /\ pc["hbbr"] \in Generating \cup {"wait"}
    /\ UNCHANGED <<files, key, watchdog, served>>

\* 300 ms are over, whatever hbbs has done meanwhile.
WaitOver ==
    /\ pc["hbbr"] = "wait"
    /\ Goes("hbbr", "open")
    /\ late' = (late \/ ahead)
    /\ UNCHANGED <<files, key, watchdog, served>>

\* A file that can be opened is read; if not, a new key is generated.
Open(s) ==
    /\ pc[s] = "open"
    /\ IF sk # Absent
       THEN Goes(s, "read") /\ UNCHANGED <<key, used>>
       ELSE \E k \in Keys \ used :
               /\ Goes(s, "write_pub")
               /\ key' = [key EXCEPT ![s] = k] /\ used' = used \cup {k}
    /\ UNCHANGED <<sk, pub, faulty, watchdog, served, late>>

\* A malformed key ends the process.
Read(s) ==
    /\ pc[s] = "read"
    /\ IF sk \in Keys
       THEN Goes(s, "bind") /\ key' = [key EXCEPT ![s] = sk]
       ELSE Goes(s, "down") /\ UNCHANGED key
    /\ UNCHANGED <<files, watchdog, served, late>>

WritePub(s) ==
    /\ pc[s] = "write_pub"
    /\ pub' = key[s]
    /\ Goes(s, "create_sk")
    /\ UNCHANGED <<sk, used, faulty, key, watchdog, served, late>>

\* File::create truncates a file that another process has created meanwhile.
CreateSk(s) ==
    /\ pc[s] = "create_sk"
    /\ sk' = Empty
    /\ Goes(s, "write_sk")
    /\ UNCHANGED <<pub, used, faulty, key, watchdog, served, late>>

WriteSk(s) ==
    /\ pc[s] = "write_sk"
    /\ sk' = key[s]
    /\ Goes(s, "bind")
    /\ UNCHANGED <<pub, used, faulty, key, watchdog, served, late>>

\* A file that exists cannot be opened: it is taken to be absent.
OpenFails(s) ==
    /\ pc[s] = "open" /\ sk # Absent
    /\ \E k \in Keys \ used :
          /\ Goes(s, "write_pub")
          /\ key' = [key EXCEPT ![s] = k] /\ used' = used \cup {k}
    /\ faulty' = TRUE
    /\ UNCHANGED <<sk, pub, watchdog, served, late>>

\* A read, a create or the write of the private key fails: the server goes on
\* without a key.  Nobody sees that the public key could not be written.
FileFails(s) ==
    /\ pc[s] \in {"read", "write_pub", "create_sk", "write_sk"}
    /\ faulty' = TRUE
    /\ \/ /\ pc[s] = "write_pub"
          /\ pub' = Empty
          /\ Goes(s, "create_sk")
          /\ UNCHANGED key
       \/ /\ Goes(s, "bind")
          /\ key' = [key EXCEPT ![s] = None]
          /\ UNCHANGED pub
    /\ UNCHANGED <<sk, used, watchdog, served, late>>

-----------------------------------------------------------------------------
(* start *)

NoWatchdog ==
    /\ socket' = "none" /\ test' = "off" /\ quiet' = 0 /\ due' = FALSE
    /\ probe' = FALSE /\ answer' = FALSE /\ missed' = 0 /\ stalled' = FALSE

\* Whatever ends the process.
Ends(s) ==
    /\ Goes(s, "down")
    /\ key' = [key EXCEPT ![s] = None]
    /\ IF s = "hbbs" THEN NoWatchdog ELSE UNCHANGED watchdog
    /\ UNCHANGED <<files, served, late>>

\* The sockets are bound; hbbs spawns test_hbbs, whose first tick is due.
Bind(s) ==
    /\ pc[s] = "bind"
    /\ Goes(s, "up")
    /\ served' = served \cup ({key[s]} \ {None})
    /\ IF s = "hbbs"
       THEN /\ socket' = "ok"
            /\ test' \in Addresses
            /\ due' = (test' # "off")
            /\ quiet' = 0 /\ missed' = 0
            /\ UNCHANGED <<probe, answer, stalled>>
       ELSE UNCHANGED watchdog
    /\ UNCHANGED <<files, key, late>>

\* A signal or a crash; or a socket cannot be bound, at first or again after
\* a failure.
Killed(s) == pc[s] # "down" /\ Ends(s)

\* io_loop ends with LoopFailure::UdpSocket, and the new socket is bound.  A
\* listener that fails is replaced in the same way and leaves no trace here.
UdpFails ==
    /\ pc["hbbs"] = "up"
    /\ socket' = "ok"
    /\ probe' = FALSE
    /\ UNCHANGED <<files, pc, key, ahead, served, late>>
    /\ UNCHANGED <<test, quiet, due, answer, missed, stalled>>

\* The socket stops to receive without an error, which test_hbbs is for.
UdpDies ==
    /\ socket = "ok"
    /\ socket' = "dead"
    /\ probe' = FALSE
    /\ UNCHANGED <<files, pc, key, ahead, served, late>>
    /\ UNCHANGED <<test, quiet, due, answer, missed, stalled>>

\* handle_udp answers the RegisterPeer of "(:test_hbbs:)", when io_loop gets to it.
Answer ==
    /\ socket = "ok" /\ probe
    /\ probe' = FALSE
    /\ answer' = TRUE
    /\ UNCHANGED <<files, pc, key, ahead, served, late>>
    /\ UNCHANGED <<socket, test, quiet, due, missed, stalled>>

-----------------------------------------------------------------------------
(* test_hbbs *)

\* last_time_recv.elapsed().as_secs() > 12
Silent == quiet > LIMIT

Probe ==
    /\ due /\ ~ Silent
    /\ due' = FALSE
    /\ probe' = (socket = "ok")
    /\ missed' = missed + 1
    /\ UNCHANGED <<files, pc, key, ahead, served, late>>
    /\ UNCHANGED <<socket, test, quiet, answer, stalled>>

\* quiet is rounded up: up to a second of it was before the answer.
Receive ==
    /\ answer
    /\ answer' = FALSE
    /\ quiet' = 0
    /\ missed' = 0 /\ stalled' = FALSE
    /\ UNCHANGED <<files, pc, key, ahead, served, late>>
    /\ UNCHANGED <<socket, test, due, probe>>

Mut_KeepsLastTimeRecv ==
    IF test = "v6"
    THEN /\ test' = "v4" /\ probe' = FALSE /\ answer' = FALSE
         /\ missed' = 0 /\ stalled' = FALSE
         /\ UNCHANGED <<files, pc, key, ahead, served, late, socket, quiet, due>>
    ELSE Ends("hbbs")

Mut_TriesIpv6Again ==
    /\ test' = IF test = "v6" THEN "v4" ELSE "v6"
    /\ quiet' = 0 /\ probe' = FALSE /\ answer' = FALSE
    /\ missed' = 0 /\ stalled' = FALSE
    /\ UNCHANGED <<files, pc, key, ahead, served, late, socket, due>>

\* test_hbbs returns an error: from [::] it goes on to 0.0.0.0, with a new
\* socket, a new last_time_recv and a first tick at once; otherwise the process
\* ends.
TestFails ==
    IF test = "v6"
    THEN /\ test' = "v4" /\ quiet' = 0 /\ probe' = FALSE /\ answer' = FALSE
         /\ missed' = 0 /\ stalled' = FALSE
         /\ UNCHANGED <<files, pc, key, ahead, served, late, socket, due>>
    ELSE Ends("hbbs")

GiveUp == due /\ Silent /\ TestFails

\* Its own socket cannot be made or does not send.
ProbeFails == due /\ ~ Silent /\ TestFails

\* A second goes by.
Second ==
    /\ test # "off" /\ quiet <= LIMIT
    /\ quiet' = quiet + 1
    /\ due' = TRUE
    /\ stalled' = (stalled \/ due \/ answer)
    /\ UNCHANGED <<files, pc, key, ahead, served, late>>
    /\ UNCHANGED <<socket, test, probe, answer, missed>>

Next ==
    \/ \E s \in Servers :
          \/ Start(s) \/ Open(s) \/ Read(s) \/ WritePub(s) \/ CreateSk(s) \/ WriteSk(s)
          \/ OpenFails(s) \/ FileFails(s) \/ Bind(s) \/ Killed(s)
    \/ WaitOver
    \/ UdpFails \/ UdpDies \/ Answer
    \/ Probe \/ Receive \/ GiveUp \/ ProbeFails \/ Second

\* Time goes on, and tokio runs test_hbbs.  Nothing makes io_loop answer, and
\* no supervisor has to start a server.
Fairness == WF_vars(Second) /\ WF_vars(Probe) /\ WF_vars(GiveUp)

Spec == Init /\ [][Next]_vars /\ Fairness

-----------------------------------------------------------------------------
(***************************************************************************)
(* Over all starts, crashes and restarts of both servers there is one key, *)
(* and id_ed25519.pub tells the clients that key: gen_sk never replaces a  *)
(* key that a server has come up with.  This needs calls on the files that *)
(* do not fail, that hbbs was not started into the 300 ms wait or the      *)
(* generation of an hbbr, and that a generation of hbbs that the wait of   *)
(* hbbr began in was done when the wait ended: otherwise each generates a  *)
(* key of its own.                                                         *)
(***************************************************************************)
OneKey ==
    ~ faulty /\ ~ late => \A k \in served : sk = k /\ pub = k

(***************************************************************************)
(* test_hbbs is about to end the process for its silence only if the       *)
(* address it ends with has left LIMIT probes unanswered; unless test_hbbs *)
(* did not get to run for a second meanwhile: its select may then take the *)
(* tick before the answer that is waiting.                                 *)
(***************************************************************************)
EndsOnlyTheDeaf ==
    due /\ Silent /\ test = "v4" => stalled \/ missed >= LIMIT

(***************************************************************************)
(* A UDP socket that no longer receives is gone after a while, if only     *)
(* because test_hbbs ends the process.                                     *)
(***************************************************************************)
DeadSocketGoes == socket = "dead" /\ test # "off" ~> socket # "dead"
=============================================================================

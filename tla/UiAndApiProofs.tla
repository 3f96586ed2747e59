--------------------------- MODULE UiAndApiProofs ----------------------------
(***************************************************************************)
(* Proofs about the two programs beside the servers: the desktop program   *)
(* (DesktopUi) and the session endpoints of kinbridge-api (SessionApi),    *)
(* for all capacities of the channels, files, sessions, sockets and life   *)
(* times.                                                                  *)
(***************************************************************************)
EXTENDS DesktopUi, SessionApi, SequenceTheorems, WellFoundedInduction, TLAPS

-----------------------------------------------------------------------------
(* The scripts that start and stop the services *)

\* A line of a script: the service, and whether it is started.
Line(service, starts) == <<service, starts>>

StopRelay == Line("hbbr", FALSE)
StopMain == Line("hbbs", FALSE)
StartMain == Line("hbbs", TRUE)
StartRelay == Line("hbbr", TRUE)

\* Where a script that runs alone stands: what is left of it, and what it has
\* ensured of the services when that is its last line.
OneScript ==
    \/ scripts = << <<StopRelay, StopMain, StartMain, StartRelay>> >>
    \/ scripts = << <<StopMain, StartMain, StartRelay>> >>
    \/ scripts = << <<StartMain, StartRelay>> >>
    \/ scripts = << <<StartRelay>> >> /\ "hbbs" \in running
    \/ scripts = << <<StopRelay, StopMain>> >>
    \/ scripts = << <<StopMain>> >> /\ "hbbr" \notin running

Together == "hbbs" \in running <=> "hbbr" \in running

ScriptInv == ~ faulty => OneScript \/ (scripts = << >> /\ Together)

\* A line has its effect.
Ran(line) == running' = IF line[2] THEN running \cup {line[1]} ELSE running \ {line[1]}

\* The only script, s, has run its first line with effect.
After(s) == Ran(Head(s)) /\ scripts' = IF Len(s) = 1 THEN << >> ELSE <<Tail(s)>>

(***************************************************************************)
(* What a line does to the services.                                       *)
(***************************************************************************)
LEMMA RanMeans ==
    /\ Ran(StopRelay) => running' = running \ {"hbbr"}
    /\ Ran(StopMain) => running' = running \ {"hbbs"}
    /\ Ran(StartMain) => running' = running \cup {"hbbs"}
    /\ Ran(StartRelay) => running' = running \cup {"hbbr"}
  <1>1. \A x : Line(x, TRUE)[1] = x /\ Line(x, FALSE)[1] = x
    BY DEF Line
  <1>2. \A x : Line(x, TRUE)[2] = TRUE /\ Line(x, FALSE)[2] = FALSE
    BY Zenon DEF Line
  <1> QED
    BY <1>1, <1>2, Zenon DEF Ran, StopRelay, StopMain, StartMain, StartRelay

(***************************************************************************)
(* The lines of WindowsDesktopService's two scripts.                       *)
(***************************************************************************)
LEMMA ScriptLines ==
    /\ StartScript = <<StopRelay, StopMain, StartMain, StartRelay>>
    /\ StopScript = <<StopRelay, StopMain>>
  <1>1. ASSUME NEW a, NEW b, NEW c, NEW d PROVE <<a, b>> \o <<c, d>> = <<a, b, c, d>>
    <2> DEFINE S == {a, b, c, d}
               s == <<a, b>>
               t == <<c, d>>
               u == <<a, b, c, d>>
    <2>1. /\ s \in Seq(S) /\ t \in Seq(S) /\ u \in Seq(S)
          /\ Len(s) = 2 /\ Len(t) = 2 /\ Len(u) = 4
          /\ s[1] = a /\ s[2] = b /\ t[1] = c /\ t[2] = d
          /\ u[1] = a /\ u[2] = b /\ u[3] = c /\ u[4] = d
      OBVIOUS
    <2> HIDE DEF S, s, t, u
    <2>2. /\ s \o t \in Seq(S) /\ Len(s \o t) = 4
          /\ \A i \in 1 .. 4 : (s \o t)[i] = IF i <= 2 THEN s[i] ELSE t[i - 2]
      <3>1. /\ s \o t \in Seq(S) /\ Len(s \o t) = Len(s) + Len(t)
            /\ \A i \in 1 .. Len(s) + Len(t) :
                  (s \o t)[i] = IF i <= Len(s) THEN s[i] ELSE t[i - Len(s)]
        BY <2>1, ConcatProperties, Zenon
      <3> QED
        BY <2>1, <3>1
    <2>3. \A i \in 1 .. 4 : (s \o t)[i] = u[i]
      BY <2>1, <2>2
    <2>4. s \o t = u
      BY <2>1, <2>2, <2>3, SeqEqual
    <2> QED
      BY <2>4 DEF s, t, u
  <1> QED
    BY <1>1, Zenon DEF StartScript, StopScript, StopRelay, StopMain, StartMain, StartRelay, Line

(***************************************************************************)
(* A step of the only script runs its first line, or spoils it.            *)
(***************************************************************************)
LEMMA SingleScript ==
    ASSUME NEW s, scripts = <<s>>, ScriptStep, ~ faulty'
    PROVE  After(s) /\ ~ faulty
  <1>1. RemoveAt(<<s>>, 1) = << >>
    <2>1. SubSeq(<<s>>, 1, 0) = << >> /\ SubSeq(<<s>>, 2, 1) = << >>
      BY SubSeqEmpty
    <2> QED
      BY <2>1, ConcatEmptySeq DEF RemoveAt
  <1>2. DOMAIN scripts = {1} /\ scripts[1] = s /\ [scripts EXCEPT ![1] = Tail(s)] = <<Tail(s)>>
    OBVIOUS
  <1> QED
    <2>1. PICK i \in DOMAIN scripts :
             /\ \/ /\ Ran(Head(scripts[i]))
                   /\ faulty' = faulty
                \/ faulty' = TRUE
             /\ scripts' = IF Len(scripts[i]) = 1 THEN RemoveAt(scripts, i)
                           ELSE [scripts EXCEPT ![i] = Tail(scripts[i])]
      BY DEF ScriptStep, Ran
    <2>2. i = 1
      BY <1>2
    <2>3. Ran(Head(s)) /\ ~ faulty
      BY <1>2, <2>1, <2>2
    <2>4. scripts' = IF Len(s) = 1 THEN << >> ELSE <<Tail(s)>>
      BY <1>1, <1>2, <2>1, <2>2
    <2> QED
      BY <2>3, <2>4 DEF After

(***************************************************************************)
(* Commands and lines keep a script that runs alone on its way.            *)
(***************************************************************************)
LEMMA ScriptInvStep == ScriptInv /\ [Next]_vars => ScriptInv'
  <1> SUFFICES ASSUME ScriptInv, [Next]_vars PROVE ScriptInv'
    OBVIOUS
  <1>1. CASE UNCHANGED services
    BY <1>1 DEF services, ScriptInv, OneScript, Together
  <1>2. CASE ScriptStep
    <2> SUFFICES ASSUME ~ faulty'
                 PROVE  OneScript' \/ (scripts' = << >> /\ Together')
      BY DEF ScriptInv
    <2>0. OneScript
      <3>1. scripts # << >> /\ ~ faulty
        BY <1>2 DEF ScriptStep
      <3> QED
        BY <3>1 DEF ScriptInv
    <2>a. \A a : Head(<<a>>) = a /\ Len(<<a>>) = 1
      OBVIOUS
    <2>b. \A a, b : Head(<<a, b>>) = a /\ Len(<<a, b>>) = 2 /\ Tail(<<a, b>>) = <<b>>
      OBVIOUS
    <2>c. \A a, b, c : /\ Head(<<a, b, c>>) = a /\ Len(<<a, b, c>>) = 3
                       /\ Tail(<<a, b, c>>) = <<b, c>>
      OBVIOUS
    <2>d. \A a, b, c, d : /\ Head(<<a, b, c, d>>) = a /\ Len(<<a, b, c, d>>) = 4
                           /\ Tail(<<a, b, c, d>>) = <<b, c, d>>
      OBVIOUS
    <2>1. CASE scripts = << <<StopRelay, StopMain, StartMain, StartRelay>> >>
      <3>1. After(<<StopRelay, StopMain, StartMain, StartRelay>>)
        BY <1>2, <2>1, SingleScript
      <3>2. Ran(StopRelay) /\ scripts' = << <<StopMain, StartMain, StartRelay>> >>
        BY <3>1, <2>d DEF After
      <3> QED
        BY <2>0, <2>1, <3>2, RanMeans DEF OneScript, Together
    <2>2. CASE scripts = << <<StopMain, StartMain, StartRelay>> >>
      <3>1. After(<<StopMain, StartMain, StartRelay>>)
        BY <1>2, <2>2, SingleScript
      <3>2. Ran(StopMain) /\ scripts' = << <<StartMain, StartRelay>> >>
        BY <3>1, <2>c DEF After
      <3> QED
        BY <2>0, <2>2, <3>2, RanMeans DEF OneScript, Together
    <2>3. CASE scripts = << <<StartMain, StartRelay>> >>
      <3>1. After(<<StartMain, StartRelay>>)
        BY <1>2, <2>3, SingleScript
      <3>2. Ran(StartMain) /\ scripts' = << <<StartRelay>> >>
        BY <3>1, <2>b DEF After
      <3> QED
        BY <2>0, <2>3, <3>2, RanMeans DEF OneScript, Together
    <2>4. CASE scripts = << <<StartRelay>> >> /\ "hbbs" \in running
      <3>1. After(<<StartRelay>>)
        BY <1>2, <2>4, SingleScript
      <3>2. Ran(StartRelay) /\ scripts' = << >>
        BY <3>1, <2>a DEF After
      <3> QED
        BY <2>0, <2>4, <3>2, RanMeans DEF OneScript, Together
    <2>5. CASE scripts = << <<StopRelay, StopMain>> >>
      <3>1. After(<<StopRelay, StopMain>>)
        BY <1>2, <2>5, SingleScript
      <3>2. Ran(StopRelay) /\ scripts' = << <<StopMain>> >>
        BY <3>1, <2>b DEF After
      <3> QED
        BY <2>0, <2>5, <3>2, RanMeans DEF OneScript, Together
    <2>6. CASE scripts = << <<StopMain>> >> /\ "hbbr" \notin running
      <3>1. After(<<StopMain>>)
        BY <1>2, <2>6, SingleScript
      <3>2. Ran(StopMain) /\ scripts' = << >>
        BY <3>1, <2>a DEF After
      <3> QED
        BY <2>0, <2>6, <3>2, RanMeans DEF OneScript, Together
    <2> QED
      BY <2>0, <2>1, <2>2, <2>3, <2>4, <2>5, <2>6 DEF OneScript
  <1>3. ASSUME NEW id, Command(id) PROVE ScriptInv'
    <2> SUFFICES ASSUME ~ faulty'
                 PROVE  OneScript' \/ (scripts' = << >> /\ Together')
      BY DEF ScriptInv
    <2>1. CASE Restart
      <3>1. running' = running /\ scripts' = << >> /\ scripts = << >> /\ ~ faulty
        BY <2>1 DEF Restart
      <3> QED
        BY <3>1 DEF ScriptInv, OneScript, Together
    <2>2. CASE Begin(StartScript) \/ Begin(StopScript)
      <3>1. scripts = << >>
        BY <2>2 DEF Begin
      <3>2. /\ Append(<< >>, StartScript) = <<StartScript>>
            /\ Append(<< >>, StopScript) = <<StopScript>>
        OBVIOUS
      <3>3. scripts' = <<StartScript>> \/ scripts' = <<StopScript>>
        BY <2>2, <3>1, <3>2 DEF Begin
      <3> QED
        BY <3>3, ScriptLines DEF OneScript
    <2> QED
      BY <1>3, <2>1, <2>2 DEF Command
  <1>4. CASE PresenterReceive
    BY <1>1, <1>3, <1>4 DEF PresenterReceive
  <1> QED
    BY <1>1, <1>2, <1>4
    DEF Next, PresenterSend, PresenterSleep, PresenterWake, PresenterCheck, ViewReceive,
        ViewTurn, Click, ClickSend, IterationEnd, PageEvent, FileChange, vars

(***************************************************************************)
(* A start or stop whose script has the services to itself and whose lines *)
(* all have their effect leaves hbbs and hbbr both running or both         *)
(* stopped, in whatever state it found them.                               *)
(***************************************************************************)
THEOREM ServicesRunTogether == Spec => []RunTogether
  <1>1. Init => ScriptInv
    <2> SUFFICES ASSUME Init
                 PROVE  ScriptInv
      OBVIOUS
    <2>1. running \in {{}, Services} /\ scripts = << >>
      BY ConstantsAssumption DEF Init
    <2>2. Together
      BY <2>1 DEF Together, Services
    <2> QED
      BY <2>1, <2>2 DEF ScriptInv
  <1>2. ScriptInv => RunTogether
    BY DEF ScriptInv, OneScript, RunTogether, Together
  <1> QED
    BY <1>1, <1>2, ScriptInvStep, PTL DEF Spec
-----------------------------------------------------------------------------
(* What the view shows *)

Kinds == {"", "ViewInit", "ViewAction", "BrowserInit", "BrowserAction", "FileChange",
          "BrowserUpdate", "ViewRenderServiceState", "ViewRenderAppExit"}
Args == Files \cup Commands \cup {"", "exit", "Started", "Stopped", "Unknown"}
Event == Kinds \X Args

ChannelTypes ==
    /\ toPresenter \in Seq(Event) /\ toView \in Seq(Event)
    /\ out \in Event /\ click \in Event
    /\ file \in Files

\* Latest, of any sequence of events.
LatestIn(q, kind, shown) ==
    LET i == SelectLastInSeq(q, LAMBDA e : e[1] = kind)
    IN  IF i = 0 THEN shown ELSE q[i][2]

\* v is the argument of the last event of a kind in q or, without one, what is shown.
IsLatest(q, kind, shown, v) ==
    \/ v = shown /\ \A i \in 1 .. Len(q) : q[i][1] # kind
    \/ \E i \in 1 .. Len(q) : /\ q[i][1] = kind /\ q[i][2] = v
                              /\ \A k \in 1 .. Len(q) : k > i => q[k][1] # kind

\* The same of the channel to the view and the event that is being sent to it.
Shows(kind, shown, v) ==
    \/ out[1] = kind /\ out[2] = v
    \/ out[1] # kind /\ IsLatest(toView, kind, shown, v)

ViewInv ==
    /\ ChannelTypes
    /\ Shows("ViewRenderServiceState", title, service_state)
    /\ Shows("BrowserUpdate", selected, file) \/ Shows("BrowserUpdate", selected, "")

(***************************************************************************)
(* A non-empty set of positions has a last one, which Max is.              *)
(***************************************************************************)
LEMMA MaxPosition ==
    ASSUME NEW n \in Nat, NEW S, S \subseteq 1 .. n, S # {}
    PROVE  Max(S) \in S /\ \A y \in S : Max(S) >= y
  <1> DEFINE R == OpToRel(<, Nat)
             T == {n - x : x \in S}
  <1>0. \A x \in S : x \in Nat /\ x <= n /\ n - x \in Nat
    OBVIOUS
  <1>1. T \subseteq Nat /\ T # {}
    BY <1>0
  <1>2. IsWellFoundedOn(R, Nat)
    BY NatLessThanWellFounded
  <1>3. PICK d \in T : \A e \in T : ~ (<<e, d>> \in R)
    <2> HIDE DEF R, T
    <2> QED
      BY <1>1, <1>2, WFMin
  <1>4. \A e \in T : ~ (e < d)
    BY <1>1, <1>3 DEF OpToRel
  <1>5. PICK x \in S : d = n - x
    OBVIOUS
  <1>6. \A y \in S : ~ (n - y < n - x)
    BY <1>4, <1>5
  <1>7. \E z \in S : \A y \in S : z >= y
    BY <1>0, <1>6
  <1> QED
    BY <1>7 DEF Max

(***************************************************************************)
(* IsLatest is what the model's search for the last event computes.        *)
(***************************************************************************)
LEMMA LatestMeans ==
    ASSUME NEW q \in Seq(Event), NEW kind, NEW shown, NEW v
    PROVE  LatestIn(q, kind, shown) = v <=> IsLatest(q, kind, shown, v)
  <1> DEFINE I == {i \in 1 .. Len(q) : q[i][1] = kind}
             last == SelectLastInSeq(q, LAMBDA e : e[1] = kind)
  <1>0. Len(q) \in Nat
    OBVIOUS
  <1>1. last = IF I # {} THEN Max(I) ELSE 0
    BY DEF SelectLastInSeq
  <1>2. LatestIn(q, kind, shown) = IF last = 0 THEN shown ELSE q[last][2]
    BY DEF LatestIn
  <1> HIDE DEF last
  <1>3. CASE I = {}
    BY <1>1, <1>2, <1>3 DEF IsLatest
  <1>4. CASE I # {}
    <2>1. Max(I) \in I /\ \A y \in I : Max(I) >= y
      <3> HIDE DEF I
      <3>1. I \subseteq 1 .. Len(q)
        BY DEF I
      <3> QED
        BY <1>0, <1>4, <3>1, MaxPosition
    <2>2. /\ last \in 1 .. Len(q) /\ q[last][1] = kind
          /\ \A k \in 1 .. Len(q) : q[k][1] = kind => last >= k
      BY <1>1, <1>4, <2>1
    <2>3. LatestIn(q, kind, shown) = q[last][2]
      BY <1>0, <1>2, <2>2
    <2> QED
      BY <1>0, <2>2, <2>3 DEF IsLatest
  <1> QED
    BY <1>3, <1>4

(***************************************************************************)
(* Sending an event of the kind replaces what is latest; no other does.    *)
(***************************************************************************)
LEMMA LatestAppend ==
    ASSUME NEW q \in Seq(Event), NEW e \in Event, NEW kind, NEW shown, NEW v
    PROVE  IsLatest(Append(q, e), kind, shown, v) <=>
              \/ e[1] = kind /\ e[2] = v
              \/ e[1] # kind /\ IsLatest(q, kind, shown, v)
  <1> DEFINE r == Append(q, e)
             n == Len(q)
  <1>1. /\ Len(r) = n + 1 /\ n \in Nat /\ r[n + 1] = e
        /\ \A i \in 1 .. n : r[i] = q[i]
    BY AppendProperties, LenProperties
  <1> HIDE DEF r, n
  <1>2. CASE e[1] = kind
    <2>1. IsLatest(r, kind, shown, v) <=> e[2] = v
      BY <1>1, <1>2 DEF IsLatest
    <2> QED
      BY <1>2, <2>1 DEF r
  <1>3. CASE e[1] # kind
    <2>1. (\A i \in 1 .. n + 1 : r[i][1] # kind) <=> (\A i \in 1 .. n : q[i][1] # kind)
      BY <1>1, <1>3
    <2>2. \A i \in 1 .. n : (\A k \in 1 .. n + 1 : k > i => r[k][1] # kind)
                               <=> (\A k \in 1 .. n : k > i => q[k][1] # kind)
      BY <1>1, <1>3
    <2>3. IsLatest(r, kind, shown, v) <=>
             \/ v = shown /\ \A i \in 1 .. n : q[i][1] # kind
             \/ \E i \in 1 .. n : /\ q[i][1] = kind /\ q[i][2] = v
                                  /\ \A k \in 1 .. n : k > i => q[k][1] # kind
      <3>1. \A i \in 1 .. n + 1 : r[i][1] = kind => i \in 1 .. n
        BY <1>1, <1>3
      <3>2. \A i \in 1 .. n : i \in 1 .. n + 1
        BY <1>1
      <3> QED
        BY <1>1, <2>1, <2>2, <3>1, <3>2 DEF IsLatest
    <2> QED
      BY <1>3, <2>3 DEF IsLatest, r, n
  <1> QED
    BY <1>2, <1>3

(***************************************************************************)
(* Showing the oldest event leaves the latest the same.                    *)
(***************************************************************************)
LEMMA LatestTail ==
    ASSUME NEW q \in Seq(Event), q # << >>, NEW kind, NEW shown, NEW v,
           IsLatest(q, kind, shown, v)
    PROVE  IsLatest(Tail(q), kind, IF Head(q)[1] = kind THEN Head(q)[2] ELSE shown, v)
  <1> DEFINE t == Tail(q)
             n == Len(q)
  <1>1. /\ Len(t) = n - 1 /\ n \in Nat /\ n > 0 /\ Head(q) = q[1]
        /\ \A i \in 1 .. n - 1 : t[i] = q[i + 1]
    BY HeadTailProperties, LenProperties, EmptySeq
  <1> HIDE DEF t
  <1>2. CASE v = shown /\ \A i \in 1 .. n : q[i][1] # kind
    BY <1>1, <1>2 DEF IsLatest, t
  <1>3. ASSUME NEW i \in 1 .. n, q[i][1] = kind, q[i][2] = v,
               \A k \in 1 .. n : k > i => q[k][1] # kind
        PROVE  IsLatest(t, kind, IF Head(q)[1] = kind THEN Head(q)[2] ELSE shown, v)
    <2>1. CASE i = 1
      <3>1. \A k \in 1 .. n - 1 : t[k][1] # kind
        <4>1. \A k \in 1 .. n - 1 : k + 1 \in 1 .. n /\ k + 1 > 1
          BY <1>1
        <4> QED
          BY <1>1, <1>3, <2>1, <4>1
      <3> QED
        BY <1>1, <1>3, <2>1, <3>1 DEF IsLatest
    <2>2. CASE i # 1
      <3>1. i - 1 \in 1 .. n - 1 /\ t[i - 1] = q[i]
        BY <1>1, <2>2
      <3>2. \A k \in 1 .. n - 1 : k > i - 1 => t[k][1] # kind
        <4>1. \A k \in 1 .. n - 1 : k > i - 1 => k + 1 \in 1 .. n /\ k + 1 > i
          BY <1>1
        <4> QED
          BY <1>1, <1>3, <4>1
      <3> QED
        BY <1>1, <1>3, <3>1, <3>2 DEF IsLatest
    <2> QED
      BY <2>1, <2>2
  <1> QED
    BY <1>2, <1>3 DEF IsLatest, t

(***************************************************************************)
(* Shows is what the model's Latest computes.                              *)
(***************************************************************************)
LEMMA ShowsMeans ==
    ASSUME ChannelTypes, NEW kind, kind # "", NEW shown, NEW v
    PROVE  Latest(kind, shown) = v <=> Shows(kind, shown, v)
  <1>1. OnTheWay \in Seq(Event)
    <2>1. Append(toView, out) \in Seq(Event)
      BY AppendProperties DEF ChannelTypes
    <2> QED
      BY <2>1 DEF OnTheWay, ChannelTypes
  <1>2. Latest(kind, shown) = v <=> IsLatest(OnTheWay, kind, shown, v)
    <2>1. Latest(kind, shown) = LatestIn(OnTheWay, kind, shown)
      BY DEF Latest, LatestIn
    <2>2. LatestIn(OnTheWay, kind, shown) = v <=> IsLatest(OnTheWay, kind, shown, v)
      BY <1>1, LatestMeans, Zenon
    <2> QED
      BY <2>1, <2>2
  <1>3. CASE out = Nothing
    <2>1. OnTheWay = toView /\ out[1] = ""
      BY <1>3 DEF OnTheWay, Nothing
    <2> QED
      BY <1>2, <2>1 DEF Shows
  <1>4. CASE out # Nothing
    <2>1. OnTheWay = Append(toView, out)
      BY <1>4 DEF OnTheWay
    <2> QED
      BY <1>2, <2>1, LatestAppend DEF Shows, ChannelTypes
  <1> QED
    BY <1>3, <1>4

(***************************************************************************)
(* The events of the channels are well formed, and what the view shows or  *)
(* is about to show is what the presenter holds, at first.                 *)
(***************************************************************************)
LEMMA ViewInit == Init => ViewInv
  <1> SUFFICES ASSUME Init PROVE ViewInv
    OBVIOUS
  <1>1. /\ <<"ViewInit", "">> \in Event /\ Nothing \in Event
        /\ <<"ViewRenderServiceState", "Unknown">> \in Event
    BY DEF Event, Kinds, Args, Nothing
  <1>2. toPresenter \in Seq(Event) /\ toView \in Seq(Event) /\ Len(toView) = 0
    <2>1. \A x \in Event : <<x>> \in Seq(Event)
      OBVIOUS
    <2>2. << >> \in Seq(Event) /\ Len(<< >>) = 0
      BY EmptySeq
    <2> QED
      BY <1>1, <2>1, <2>2 DEF Init
  <1>3. out[1] = "ViewRenderServiceState" /\ out[2] = "Unknown"
    BY DEF Init
  <1>4. ChannelTypes
    BY <1>1, <1>2, ConstantsAssumption DEF Init, ChannelTypes
  <1>5. Shows("ViewRenderServiceState", title, service_state)
    BY <1>3 DEF Init, Shows
  <1>6. Shows("BrowserUpdate", selected, "")
    <2>1. out[1] # "BrowserUpdate" /\ selected = ""
      BY <1>3 DEF Init
    <2>2. IsLatest(toView, "BrowserUpdate", selected, "")
      <3>1. \A i \in 1 .. Len(toView) : toView[i][1] # "BrowserUpdate"
        BY <1>2
      <3> QED
        BY <2>1, <3>1, Zenon DEF IsLatest
    <2> QED
      BY <2>1, <2>2 DEF Shows
  <1> QED
    BY <1>4, <1>5, <1>6 DEF ViewInv

(***************************************************************************)
(* The presenter answers events with events, and with the new file         *)
(* whenever it changes the file.                                           *)
(***************************************************************************)
LEMMA ReplyMeans ==
    ASSUME NEW e \in Event, file \in Files
    PROVE  /\ Reply(e) \in Event
           /\ Reply(e)[1] # "ViewRenderServiceState"
           /\ e[1] = "ViewAction" /\ e[2] \in Files => Reply(e) = <<"BrowserUpdate", e[2]>>
           /\ ~ (e[1] = "ViewAction" /\ e[2] \in Files) =>
                 Reply(e) = <<"BrowserUpdate", file>> \/ Reply(e)[1] # "BrowserUpdate"
  <1>1. e = <<e[1], e[2]>> /\ e[1] \in Kinds /\ e[2] \in Args
    BY DEF Event
  <1>2. <<"ViewAction", "exit">>[2] = "exit"
    OBVIOUS
  <1>3. /\ Nothing \in Event /\ Nothing[1] = ""
        /\ <<"ViewRenderAppExit", "">> \in Event
        /\ \A f \in Files : <<"BrowserUpdate", f>> \in Event
    BY DEF Event, Kinds, Args, Nothing
  <1>4. CASE e = <<"ViewAction", "exit">>
    BY <1>3, <1>4, ConstantsAssumption DEF Reply
  <1>5. CASE e # <<"ViewAction", "exit">> /\ (e[1] = "BrowserInit" \/ e = <<"FileChange", file>>)
    <2>1. e[1] # "ViewAction"
      BY <1>5
    <2> QED
      BY <1>3, <1>5, <2>1 DEF Reply
  <1>6. CASE e # <<"ViewAction", "exit">> /\ ~ (e[1] = "BrowserInit" \/ e = <<"FileChange", file>>)
    BY <1>3, <1>6 DEF Reply
  <1> QED
    BY <1>4, <1>5, <1>6

(***************************************************************************)
(* Every step of the view, the presenter, the page, the watcher and the    *)
(* services keeps the view in step.                                        *)
(***************************************************************************)
LEMMA ViewStep == ViewInv /\ [Next]_vars => ViewInv'
  <1> SUFFICES ASSUME ViewInv, [Next]_vars PROVE ViewInv'
    OBVIOUS
  <1>0. /\ toPresenter \in Seq(Event) /\ toView \in Seq(Event) /\ out \in Event /\ click \in Event
        /\ file \in Files /\ Nothing \in Event /\ Nothing[1] = ""
    BY DEF ViewInv, ChannelTypes, Event, Kinds, Args, Nothing
  \* Whatever leaves the way to the view alone.
  <1>1. ASSUME UNCHANGED <<toView, out, title, selected, service_state, file>>,
               toPresenter' \in Seq(Event), click' \in Event
        PROVE  ViewInv'
    <2>1. ChannelTypes'
      BY <1>0, <1>1 DEF ChannelTypes
    <2>2. Shows("ViewRenderServiceState", title, service_state)'
      BY <1>1 DEF ViewInv, Shows, IsLatest
    <2>3. (Shows("BrowserUpdate", selected, file) \/ Shows("BrowserUpdate", selected, ""))'
      <3>1. CASE Shows("BrowserUpdate", selected, file)
        BY <1>1, <3>1 DEF Shows, IsLatest
      <3>2. CASE Shows("BrowserUpdate", selected, "")
        BY <1>1, <3>2 DEF Shows, IsLatest
      <3> QED
        BY <3>1, <3>2 DEF ViewInv
    <2> QED
      BY <2>1, <2>2, <2>3 DEF ViewInv
  <1>2. ASSUME NEW e \in Event, toPresenter' = Append(toPresenter, e)
        PROVE  toPresenter' \in Seq(Event)
    BY <1>0, <1>2, AppendProperties
  <1>3. CASE PresenterReceive
    <2> DEFINE e == Head(toPresenter)
    <2>1. /\ e \in Event /\ toPresenter' \in Seq(Event) /\ out = Nothing
          /\ UNCHANGED <<toView, service_state, title, selected, click>>
          /\ file' = (IF e[1] = "ViewAction" /\ e[2] \in Files THEN e[2] ELSE file)
          /\ out' = Reply(e)
      BY <1>0, <1>3, HeadTailProperties DEF PresenterReceive, MayReceive, view
    <2> HIDE DEF e
    <2>0. \A f : <<"BrowserUpdate", f>>[1] = "BrowserUpdate" /\ <<"BrowserUpdate", f>>[2] = f
      OBVIOUS
    <2>2. ChannelTypes'
      BY <1>0, <2>1, ReplyMeans DEF ChannelTypes
    <2>3. IsLatest(toView, "ViewRenderServiceState", title, service_state)
      BY <1>0, <2>1 DEF ViewInv, Shows
    <2>4. Shows("ViewRenderServiceState", title, service_state)'
      BY <1>0, <2>1, <2>3, ReplyMeans DEF Shows, IsLatest
    <2>5. \/ IsLatest(toView, "BrowserUpdate", selected, file)
          \/ IsLatest(toView, "BrowserUpdate", selected, "")
      BY <1>0, <2>1 DEF ViewInv, Shows
    <2>6. CASE e[1] = "ViewAction" /\ e[2] \in Files
      <3>1. out'[1] = "BrowserUpdate" /\ out'[2] = file'
        BY <1>0, <2>0, <2>1, <2>6, ReplyMeans
      <3> QED
        BY <2>2, <2>4, <3>1 DEF ViewInv, Shows
    <2>7. CASE ~ (e[1] = "ViewAction" /\ e[2] \in Files)
      <3>1. /\ file' = file
            /\ out'[1] = "BrowserUpdate" => out'[2] = file
        BY <1>0, <2>0, <2>1, <2>7, ReplyMeans
      <3>2. (Shows("BrowserUpdate", selected, file) \/ Shows("BrowserUpdate", selected, ""))'
        BY <2>1, <2>5, <3>1 DEF Shows, IsLatest
      <3> QED
        BY <2>2, <2>4, <3>2 DEF ViewInv
    <2> QED
      BY <2>6, <2>7
  <1>4. CASE PresenterSend
    <2>1. /\ toView' = Append(toView, out) /\ out' = Nothing
          /\ UNCHANGED <<toPresenter, click, file, service_state, title, selected>>
      BY <1>4 DEF PresenterSend, view
    <2>2. ASSUME NEW kind, kind # "", NEW shown, NEW v, Shows(kind, shown, v)
          PROVE  IsLatest(toView', kind, shown, v) /\ out'[1] # kind
      BY <1>0, <2>1, <2>2, LatestAppend DEF Shows
    <2>3. toView' \in Seq(Event)
      BY <1>0, <2>1, AppendProperties
    <2>4. Shows("ViewRenderServiceState", title, service_state)'
      <3>1. IsLatest(toView', "ViewRenderServiceState", title, service_state)
        BY <2>2 DEF ViewInv
      <3> QED
        BY <1>0, <2>1, <3>1 DEF Shows
    <2>5. (Shows("BrowserUpdate", selected, file) \/ Shows("BrowserUpdate", selected, ""))'
      <3>1. \/ IsLatest(toView', "BrowserUpdate", selected, file)
            \/ IsLatest(toView', "BrowserUpdate", selected, "")
        BY <2>2 DEF ViewInv
      <3> QED
        BY <1>0, <2>1, <3>1 DEF Shows
    <2> QED
      BY <1>0, <2>1, <2>3, <2>4, <2>5 DEF ViewInv, ChannelTypes
  <1>5. CASE PresenterCheck
    <2>1. /\ out = Nothing /\ service_state' = Status
          /\ out' = (IF Status # service_state THEN <<"ViewRenderServiceState", Status>> ELSE Nothing)
          /\ UNCHANGED <<toPresenter, toView, click, file, title, selected>>
      BY <1>5 DEF PresenterCheck, view
    <2>2. <<"ViewRenderServiceState", Status>> \in Event
      BY DEF Status, Event, Kinds, Args
    <2>3. CASE Status = service_state
      BY <1>0, <1>1, <2>1, <2>3
    <2>4. CASE Status # service_state
      <3>1. out'[1] = "ViewRenderServiceState" /\ out'[2] = service_state'
        BY <2>1, <2>4
      <3>2. \/ IsLatest(toView, "BrowserUpdate", selected, file)
            \/ IsLatest(toView, "BrowserUpdate", selected, "")
        BY <1>0, <2>1 DEF ViewInv, Shows
      <3>3. (Shows("BrowserUpdate", selected, file) \/ Shows("BrowserUpdate", selected, ""))'
        BY <2>1, <3>1, <3>2 DEF Shows, IsLatest
      <3>4. ChannelTypes'
        BY <1>0, <2>1, <2>2 DEF ChannelTypes
      <3> QED
        BY <3>1, <3>3, <3>4 DEF ViewInv, Shows
    <2> QED
      BY <2>3, <2>4
  <1>6. CASE ViewReceive
    <2> DEFINE e == Head(toView)
    <2>1. /\ toView # << >> /\ toView' = Tail(toView) /\ toView' \in Seq(Event)
          /\ selected' = (IF e[1] = "BrowserUpdate" THEN e[2] ELSE selected)
          /\ title' = (IF e[1] = "ViewRenderServiceState" THEN e[2] ELSE title)
          /\ UNCHANGED <<toPresenter, out, click, file, service_state>>
      BY <1>0, <1>6, HeadTailProperties DEF ViewReceive, presenter
    <2> HIDE DEF e
    <2>2. ASSUME NEW kind, NEW shown, NEW v, Shows(kind, shown, v)
          PROVE  \/ out[1] = kind /\ out[2] = v
                 \/ out[1] # kind /\ IsLatest(toView', kind, IF e[1] = kind THEN e[2] ELSE shown, v)
      BY <1>0, <2>1, <2>2, LatestTail DEF Shows, e
    <2>3. Shows("ViewRenderServiceState", title, service_state)'
      BY <2>1, <2>2 DEF ViewInv, Shows
    <2>4. (Shows("BrowserUpdate", selected, file) \/ Shows("BrowserUpdate", selected, ""))'
      BY <2>1, <2>2 DEF ViewInv, Shows
    <2> QED
      BY <1>0, <2>1, <2>3, <2>4 DEF ViewInv, ChannelTypes
  <1>7. CASE ScriptStep \/ PresenterSleep \/ PresenterWake \/ IterationEnd
    BY <1>0, <1>1, <1>7
    DEF ScriptStep, PresenterSleep, PresenterWake, IterationEnd, presenter, view
  <1>8. ASSUME NEW s, ViewTurn(s) PROVE ViewInv'
    BY <1>0, <1>1, <1>8 DEF ViewTurn, presenter
  <1>9. ASSUME NEW id \in Commands \cup {"exit"} \cup Files, Click(id) PROVE ViewInv'
    <2>1. <<"ViewAction", id>> \in Event
      BY DEF Event, Kinds, Args
    <2> QED
      BY <1>0, <1>1, <1>9, <2>1 DEF Click, presenter
  <1>10. CASE ClickSend
    BY <1>0, <1>1, <1>2, <1>10 DEF ClickSend, presenter
  <1>11. ASSUME NEW e \in {<<"BrowserInit", "">>, <<"BrowserAction", "restart">>}, PageEvent(e)
         PROVE  ViewInv'
    <2>1. <<"BrowserInit", "">> \in Event /\ <<"BrowserAction", "restart">> \in Event
      BY DEF Event, Kinds, Args, Commands
    <2> QED
      BY <1>0, <1>1, <1>2, <1>11, <2>1 DEF PageEvent, presenter, view
  <1>12. ASSUME NEW f \in Files, FileChange(f) PROVE ViewInv'
    <2>1. <<"FileChange", f>> \in Event
      BY DEF Event, Kinds, Args
    <2> QED
      BY <1>0, <1>1, <1>2, <1>12, <2>1 DEF FileChange, presenter, view
  <1>13. CASE UNCHANGED vars
    BY <1>0, <1>1, <1>13 DEF vars, presenter, view
  <1> QED
    BY <1>3, <1>4, <1>5, <1>6, <1>7, <1>8, <1>9, <1>10, <1>11, <1>12, <1>13 DEF Next

(***************************************************************************)
(* The view of the desktop program follows the presenter, for channels of  *)
(* every capacity and any set of files: no update is lost or overtaken.    *)
(***************************************************************************)
THEOREM ViewFollowsPresenter == Spec => []ViewFollows
  <1>1. ViewInv => ViewFollows
    <2> SUFFICES ASSUME ViewInv PROVE ViewFollows
      OBVIOUS
    <2>1. Latest("ViewRenderServiceState", title) = service_state
      BY ShowsMeans DEF ViewInv
    <2>2. Latest("BrowserUpdate", selected) = file \/ Latest("BrowserUpdate", selected) = ""
      BY ShowsMeans DEF ViewInv
    <2> QED
      BY <2>1, <2>2 DEF ViewFollows
  <1> QED
    BY <1>1, ViewInit, ViewStep, PTL DEF Spec
-----------------------------------------------------------------------------
(* The sessions of kinbridge-api: the key inside a token is older than the *)
(* token by what Headscale took to make it.                                *)

\* The two clocks of a token.
InStep(t) == t.keyAge = t.age + t.waited

SessionInv == TypeOK /\ \A t \in tokens : InStep(t)

\* Nothing is handed out before the first step.
LEMMA SessionInit == ApiInit => SessionInv
  BY ApiAssumption DEF ApiInit, SessionInv, TypeOK

\* Every handler keeps the two clocks of a token in step.
LEMMA SessionStep == SessionInv /\ [ApiNext]_apiVars => SessionInv'
  <1> SUFFICES ASSUME SessionInv, [ApiNext]_apiVars PROVE SessionInv'
      OBVIOUS
  <1> USE ApiAssumption DEF SessionInv, TypeOK, InStep, Token
  <1>1. ASSUME NEW s \in Sessions, Start(s) PROVE SessionInv'
      BY <1>1 DEF Start
  <1>2. ASSUME NEW m \in minting, Minted(m) PROVE SessionInv'
      BY <1>2 DEF Minted
  <1>3. ASSUME NEW m \in minting, MintFails(m) PROVE SessionInv'
      BY <1>3 DEF MintFails
  <1>4. ASSUME NEW t \in tokens, NEW id \in Sessions, Resolve(t, id) PROVE SessionInv'
      BY <1>4 DEF Resolve
  <1>5. CASE Tick
      BY <1>5 DEF Tick
  <1>6. CASE UNCHANGED apiVars
      BY <1>6 DEF apiVars
  <1> QED
      BY <1>1, <1>2, <1>3, <1>4, <1>5, <1>6 DEF ApiNext

\* What resolve hands out came from a token that verified.
LEMMA KeyAliveStep ==
    SessionInv /\ ResolvedKeyAlive /\ [ApiNext]_apiVars => ResolvedKeyAlive'
  <1> SUFFICES ASSUME SessionInv, ResolvedKeyAlive, [ApiNext]_apiVars
               PROVE  ResolvedKeyAlive'
      OBVIOUS
  <1>1. ASSUME NEW t \in tokens, NEW id \in Sessions, Resolve(t, id)
        PROVE  ResolvedKeyAlive'
    <2>1. t.age < TOKEN_TTL /\ t.sid = id /\ resolved' = {[id |-> id, token |-> t]}
      BY <1>1 DEF Resolve, Verifies
    <2>2. t.age \in Nat /\ t.waited \in Nat /\ t.keyAge = t.age + t.waited
      BY ApiAssumption DEF SessionInv, TypeOK, InStep, Token
    <2>3. t.keyAge >= KEY_TTL => t.waited + TOKEN_TTL > KEY_TTL
      BY <2>1, <2>2, ApiAssumption
    <2> QED
      BY <2>1, <2>3 DEF ResolvedKeyAlive
  <1>2. CASE Tick
      BY <1>2 DEF Tick, ResolvedKeyAlive
  <1>3. CASE resolved' = resolved
      BY <1>3 DEF ResolvedKeyAlive
  <1> QED
      BY <1>1, <1>2, <1>3
      DEF ApiNext, Start, Minted, MintFails, apiVars

(***************************************************************************)
(* POST /v1/sessions/:id/resolve hands out the key of the session asked    *)
(* for, and an expired one only where Headscale took longer than the life  *)
(* of a key exceeds that of a token: for every token life, key life and    *)
(* delay.                                                                  *)
(***************************************************************************)
THEOREM KeysAlive == ApiSpec => []ResolvedKeyAlive
  <1>1. ApiInit => ResolvedKeyAlive
      BY DEF ApiInit, ResolvedKeyAlive
  <1> QED
      BY SessionInit, SessionStep, KeyAliveStep, <1>1, PTL DEF ApiSpec
=============================================================================

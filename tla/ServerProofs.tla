---------------------------- MODULE ServerProofs ----------------------------
(***************************************************************************)
(* Type correctness and safety of Server, for any number of connections    *)
(* and any length of the self-check.                                       *)
(***************************************************************************)
EXTENDS Server, TLAPS

(* The process has a status from the moment run returns. *)
StatusInv == main \notin {"returned", "exited"} => status = "none"

(* What waits in the channel is what Serve returned, and it says "closed"  *)
(* only after Shutdown was called.                                         *)
ChannelInv ==
    /\ channel # <<>> => channel = <<serve>>
    /\ serve = "closed" => inShutdown

(* A failure stays in the channel until main has it. *)
FailureInv ==
    serve = "failed" => channel = <<"failed">> \/ main \in {"returned", "exited"}

(* Nothing serves and nothing is connected before Start. *)
StartInv ==
    main \in {"dir", "open", "listen", "start"} => serve = "absent" /\ conn[Self] = "none"

(* A server calls Shutdown when it leaves the select. *)
ShutdownInv ==
    /\ mode = "serve" /\ main \in {"dir", "open", "listen", "start", "notify", "wait"}
       => ~inShutdown
    /\ main = "shutdown" => inShutdown

(* The request the self-check waits for is one of its Steps. *)
CheckInv == main = "check" /\ conn[Self] = "active" => step < Steps

(* Behind a Shutdown that succeeded, nothing is connected or will be. *)
QuietInv ==
    mode = "serve" /\ (main = "join" \/ status = "ok") =>
        inShutdown /\ \A c \in Connections : conn[c] = "none"

(* A self-check has passed when all its requests were answered, and sends  *)
(* no further one; it reports the verdict it had before its Shutdown.      *)
VerdictInv ==
    /\ verdict = "ok" => /\ step = Steps /\ conn[Self] # "active"
                         /\ main \in {"shutdown", "join", "returned", "exited"}
    /\ mode = "selfcheck" /\ status = "ok" => verdict = "ok"
    /\ mode = "selfcheck" => main \notin {"notify", "wait"}

(* What is left after an exit is held by a handler. *)
LeftInv ==
    main = "exited" /\ status # "killed" /\ dir => \E c \in Connections : conn[c] = "active"

Inv ==
    /\ TypeOK
    /\ StatusInv
    /\ ChannelInv
    /\ FailureInv
    /\ StartInv
    /\ ShutdownInv
    /\ CheckInv
    /\ QuietInv
    /\ FailureIsReported
    /\ VerdictInv
    /\ LeftInv

(* It holds when the process starts. *)
LEMMA InitInv == Init => Inv
  <1> SUFFICES ASSUME Init PROVE Inv
    OBVIOUS
  <1>1. inShutdown \in BOOLEAN /\ signalled \in BOOLEAN /\ dir \in BOOLEAN
    BY Zenon DEF Init
  <1>2. main \in {"dir", "open"}
    BY DEF Init
  <1>3. step \in 0 .. Steps
    BY ServerAssumption DEF Init
  <1>4. conn \in [Connections -> {"none", "idle", "active"}]
    BY DEF Init
  <1>5. TypeOK
    BY <1>1, <1>2, <1>3, <1>4 DEF Init, TypeOK
  <1>6. ShutdownInv /\ VerdictInv /\ LeftInv /\ StartInv /\ CheckInv
    BY <1>2 DEF Init, ShutdownInv, VerdictInv, LeftInv, StartInv, CheckInv, Connections
  <1>7. StatusInv /\ ChannelInv /\ FailureInv /\ QuietInv /\ FailureIsReported
    BY <1>2 DEF Init, StatusInv, ChannelInv, FailureInv, QuietInv, FailureIsReported
  <1> QED
    BY <1>5, <1>6, <1>7 DEF Inv

LEMMA StartingInv == Inv /\ Starting => Inv'
  <1> SUFFICES ASSUME Inv, Starting PROVE Inv'
    OBVIOUS
  <1> USE DEF Inv, TypeOK, StatusInv, ChannelInv, FailureInv, StartInv, ShutdownInv,
              CheckInv, QuietInv, FailureIsReported, VerdictInv, LeftInv, At, Return, serving, checking
  <1>1. CASE MakeDir
    <2>1. dir' \in BOOLEAN
      BY <1>1, Zenon DEF MakeDir
    <2> QED
      BY <1>1, <2>1 DEF MakeDir
  <1>2. CASE Open
    BY <1>2 DEF Open
  <1>3. CASE Listen
    BY <1>3 DEF Listen
  <1>4. CASE StartFails
    BY <1>4 DEF StartFails
  <1>5. CASE Start
    <2>1. main' \in {"check", "notify"} /\ serve' = "starting" /\ main = "start"
      BY <1>5 DEF Start
    <2>2. TypeOK'
      BY <1>5, <2>1 DEF Start
    <2>3. mode = "serve" => main' = "notify"
      BY <1>5 DEF Start
    <2>4. ChannelInv' /\ FailureInv' /\ QuietInv' /\ ShutdownInv'
      BY <1>5, <2>1, <2>3 DEF Start
    <2> QED
      BY <1>5, <2>1, <2>2, <2>4 DEF Start
  <1>6. CASE Notify
    BY <1>6 DEF Notify
  <1> QED
    BY <1>1, <1>2, <1>3, <1>4, <1>5, <1>6 DEF Starting

(* Connections come and go only where the listener is open or they are idle. *)
LEMMA ConnInv ==
  ASSUME Inv, NEW c \in Connections, NEW new \in {"idle", "active"},
         SetConn(c, new), step' \in 0 .. Steps, verdict' = verdict,
         (serve = "accepting" /\ ~inShutdown) \/ conn[c] # "none",
         StartInv', CheckInv', VerdictInv', main # "exited"
  PROVE  Inv'
  BY DEF Inv, TypeOK, StatusInv, ChannelInv, FailureInv, StartInv, ShutdownInv, CheckInv,
         QuietInv, FailureIsReported, VerdictInv, LeftInv, SetConn

LEMMA ServingInv ==
  Inv /\ (ServeBegins \/ ServeClosed \/ ServeFails) => Inv'
  <1> SUFFICES ASSUME Inv, ServeBegins \/ ServeClosed \/ ServeFails PROVE Inv'
    OBVIOUS
  <1> USE DEF Inv, TypeOK, StatusInv, ChannelInv, FailureInv, StartInv, ShutdownInv,
              CheckInv, QuietInv, FailureIsReported, VerdictInv, LeftInv, ServeReturns, checking
  <1>1. CASE ServeBegins
    BY <1>1 DEF ServeBegins
  <1>2. CASE ServeClosed
    BY <1>2 DEF ServeClosed
  <1>3. CASE ServeFails
    BY <1>3 DEF ServeFails
  <1> QED
    BY <1>1, <1>2, <1>3

LEMMA StoppingInv ==
  Inv /\ (CheckPasses \/ CheckFails \/ ServeErrorReceived \/ SignalReceived
          \/ ShutdownPolls \/ ShutdownDone \/ ShutdownTimesOut \/ Join \/ Exit \/ Signal)
  => Inv'
  <1> SUFFICES ASSUME Inv,
                      CheckPasses \/ CheckFails \/ ServeErrorReceived \/ SignalReceived
                      \/ ShutdownPolls \/ ShutdownDone \/ ShutdownTimesOut \/ Join
                      \/ Exit \/ Signal
               PROVE  Inv'
    OBVIOUS
  <1> USE DEF Inv, TypeOK, StatusInv, ChannelInv, FailureInv, StartInv, ShutdownInv,
              CheckInv, QuietInv, FailureIsReported, VerdictInv, LeftInv, At, Return, serving, checking
  <1>1. CASE CheckPasses \/ CheckFails
    <2>1. /\ main = "check" /\ main' = "shutdown" /\ inShutdown' = TRUE
          /\ UNCHANGED <<mode, serve, channel, conn, signalled, step, dir, status>>
      BY <1>1 DEF CheckPasses, CheckFails, CheckEnds
    <2>2. verdict' \in {"ok", "error"} /\ (verdict' = "ok" => step = Steps)
      BY <1>1 DEF CheckPasses, CheckFails, CheckEnds
    <2>3. verdict' = "ok" => conn[Self] # "active"
      BY <2>1, <2>2, ServerAssumption
    <2>4. TypeOK' /\ StatusInv' /\ ChannelInv' /\ FailureInv' /\ StartInv' /\ ShutdownInv'
      BY <2>1, <2>2
    <2>5. CheckInv' /\ QuietInv' /\ FailureIsReported' /\ VerdictInv' /\ LeftInv'
      BY <2>1, <2>2, <2>3
    <2> QED
      BY <2>4, <2>5 DEF Inv
  <1>2. CASE ServeErrorReceived
    BY <1>2 DEF ServeErrorReceived
  <1>3. CASE SignalReceived
    BY <1>3 DEF SignalReceived
  <1>4. CASE ShutdownPolls
    <2>1. /\ main = "shutdown"
          /\ UNCHANGED <<mode, main, serve, channel, inShutdown, signalled, checking, dir, status>>
      BY <1>4 DEF ShutdownPolls
    <2>2. conn' \in [Connections -> {"none", "idle", "active"}] /\ conn'[Self] \in {"none", conn[Self]}
      BY <1>4 DEF ShutdownPolls, CloseIdle, Connections
    <2>3. TypeOK' /\ StatusInv' /\ ChannelInv' /\ FailureInv' /\ StartInv' /\ ShutdownInv'
      BY <2>1, <2>2
    <2>4. CheckInv' /\ QuietInv' /\ FailureIsReported' /\ VerdictInv' /\ LeftInv'
      BY <2>1, <2>2
    <2> QED
      BY <2>3, <2>4 DEF Inv
  <1>5. CASE ShutdownDone
    <2>1. conn' \in [Connections -> {"none", "idle", "active"}]
      BY <1>5 DEF ShutdownDone, CloseIdle
    <2>2. \A c \in Connections : conn'[c] = "none"
      BY <1>5 DEF ShutdownDone, CloseIdle
    <2>3. inShutdown
      BY <1>5 DEF ShutdownDone
    <2>4. /\ main = "shutdown" /\ main' = "join"
          /\ UNCHANGED <<mode, serve, channel, inShutdown, signalled, checking, dir, status>>
      BY <1>5 DEF ShutdownDone
    <2>5. TypeOK' /\ StatusInv' /\ ChannelInv' /\ FailureInv' /\ StartInv' /\ ShutdownInv'
      BY <2>1, <2>4
    <2>6. CheckInv' /\ QuietInv' /\ FailureIsReported' /\ VerdictInv' /\ LeftInv'
      BY <2>2, <2>3, <2>4 DEF Connections
    <2> QED
      BY <2>5, <2>6 DEF Inv
  <1>6. CASE ShutdownTimesOut
    BY <1>6 DEF ShutdownTimesOut
  <1>7. CASE Join
    BY <1>7 DEF Join
  <1>8. CASE Exit
    <2>1. main = "returned" /\ main' = "exited"
      BY <1>8 DEF Exit, At
    <2>0. dir' \in BOOLEAN /\ (dir' => \E c \in Connections : conn[c] = "active")
      BY <1>8, Zenon DEF Exit
    <2>2. UNCHANGED <<mode, serving, signalled, checking, status>>
      BY <1>8 DEF Exit
    <2>3. TypeOK' /\ StatusInv' /\ ChannelInv' /\ FailureInv'
      BY <2>0, <2>1, <2>2
    <2>4. StartInv' /\ ShutdownInv' /\ CheckInv' /\ QuietInv'
      BY <2>1, <2>2
    <2>5. FailureIsReported' /\ VerdictInv' /\ LeftInv'
      BY <2>0, <2>1, <2>2
    <2> QED
      BY <2>3, <2>4, <2>5 DEF Inv
  <1>9. CASE Signal
    <2>1. CASE signalled' = TRUE /\ UNCHANGED <<mode, serving, checking, dir, main, status>>
      <3>1. signalled' \in BOOLEAN
        BY <2>1, Zenon
      <3> QED
        BY <2>1, <3>1
    <2>2. CASE /\ main' = "exited" /\ status' = "killed"
               /\ UNCHANGED <<mode, serving, checking, dir, signalled>>
      BY <2>2
    <2> QED
      BY <1>9, <2>1, <2>2 DEF Signal
  <1> QED
    BY <1>1, <1>2, <1>3, <1>4, <1>5, <1>6, <1>7, <1>8, <1>9

(* One case per group of actions. *)
LEMMA NextInv == Inv /\ [Next]_vars => Inv'
  <1> SUFFICES ASSUME Inv, [Next]_vars PROVE Inv'
    OBVIOUS
  <1>1. CASE Starting
    BY <1>1, StartingInv
  <1>2. CASE CheckRequest
    <2>1. SetConn(Self, "active") /\ UNCHANGED checking /\ main = "check" /\ step < Steps
      BY <1>2 DEF CheckRequest, Connect, RequestAgain
    <2>2. (serve = "accepting" /\ ~inShutdown) \/ conn[Self] # "none"
      BY <1>2 DEF CheckRequest, Connect, RequestAgain
    <2>3. StartInv' /\ CheckInv' /\ step' \in 0 .. Steps /\ verdict' = verdict
      BY <2>1 DEF SetConn, checking, StartInv, CheckInv, Inv, TypeOK
    <2>4. VerdictInv' /\ main # "exited"
      BY <2>1 DEF SetConn, checking, VerdictInv, Inv
    <2> QED
      BY <2>1, <2>2, <2>3, <2>4, ConnInv DEF Connections
  <1>3. CASE CheckAnswered
    <2>1. SetConn(Self, "idle") /\ main = "check" /\ conn[Self] = "active"
          /\ step' = step + 1 /\ verdict' = verdict
      BY <1>3 DEF CheckAnswered
    <2>2. step' \in 0 .. Steps
      BY <2>1, ServerAssumption DEF CheckInv, Inv, TypeOK
    <2>3. conn'[Self] = "idle" /\ main' = main
      BY <2>1 DEF SetConn, Inv, TypeOK, Connections
    <2>4. StartInv' /\ CheckInv'
      BY <2>1, <2>3 DEF StartInv, CheckInv
    <2>5. conn[Self] # "none"
      BY <2>1
    <2>6. VerdictInv' /\ main # "exited"
      BY <2>1 DEF SetConn, VerdictInv, Inv
    <2> QED
      BY <2>1, <2>2, <2>4, <2>5, <2>6, ConnInv DEF Connections
  <1>4. ASSUME NEW c \in Clients, Alive, Connect(c) \/ RequestAgain(c) PROVE Inv'
    <2>1. SetConn(c, "active") /\ UNCHANGED checking
      BY <1>4 DEF Connect, RequestAgain
    <2>2. (serve = "accepting" /\ ~inShutdown) \/ conn[c] # "none"
      BY <1>4 DEF Connect, RequestAgain
    <2>3. conn'[Self] = conn[Self] /\ main' = main /\ serve' = serve
      BY <2>1, ServerAssumption DEF SetConn, Inv, TypeOK, Connections
    <2>4. StartInv' /\ CheckInv' /\ step' \in 0 .. Steps /\ verdict' = verdict
      BY <2>1, <2>3 DEF checking, StartInv, CheckInv, Inv, TypeOK
    <2>5. VerdictInv' /\ main # "exited"
      BY <1>4, <2>1, <2>3 DEF Alive, SetConn, checking, VerdictInv, Inv
    <2> QED
      BY <2>1, <2>2, <2>4, <2>5, ConnInv DEF Connections
  <1>5. ASSUME NEW c \in Connections, Alive, Finish(c) PROVE Inv'
    <2>1. SetConn(c, "idle") /\ UNCHANGED checking /\ conn[c] = "active"
      BY <1>5 DEF Finish
    <2>2. conn'[Self] \in {conn[Self], "idle"} /\ main' = main /\ serve' = serve
      BY <2>1 DEF SetConn, Inv, TypeOK, Connections
    <2>3. c = Self => conn[Self] = "active"
      BY <2>1
    <2>4. conn[Self] = "none" => conn'[Self] = "none"
      BY <2>1, <2>3 DEF SetConn, Inv, TypeOK, Connections
    <2>5. StartInv' /\ CheckInv' /\ step' \in 0 .. Steps /\ verdict' = verdict
      BY <2>1, <2>2, <2>4 DEF checking, StartInv, CheckInv, Inv, TypeOK
    <2>6. conn[c] # "none"
      BY <2>1
    <2>7. VerdictInv' /\ main # "exited"
      BY <1>5, <2>1, <2>2 DEF Alive, SetConn, checking, VerdictInv, Inv
    <2> QED
      BY <2>1, <2>5, <2>6, <2>7, ConnInv
  <1>6. CASE ServeBegins \/ ServeClosed \/ ServeFails
    BY <1>6, ServingInv
  <1>7. CASE CheckPasses \/ CheckFails \/ ServeErrorReceived \/ SignalReceived
             \/ ShutdownPolls \/ ShutdownDone \/ ShutdownTimesOut \/ Join \/ Exit \/ Signal
    BY <1>7, StoppingInv
  <1>8. CASE UNCHANGED vars
    BY <1>8 DEF vars, Inv, TypeOK, StatusInv, ChannelInv, FailureInv, StartInv, ShutdownInv,
                CheckInv, QuietInv, FailureIsReported, VerdictInv, LeftInv
  <1> QED
    BY <1>1, <1>2, <1>3, <1>4, <1>5, <1>6, <1>7, <1>8 DEF Next, MainStep, ServeStep

(* The goroutines, the channel and the connections have their types. *)
THEOREM TypeCorrect == Spec => []TypeOK
  <1>1. Inv => TypeOK
    BY DEF Inv
  <1> QED
    BY InitInv, NextInv, <1>1, PTL DEF Spec

(* A server that stops with status 0 has answered what it took, whatever   *)
(* the order of signal, accepts, handlers and the end of Serve             *)
(* (main.go:79-89).                                                        *)
THEOREM StopsClean == Spec => []AnswersBeforeExit
  <1>1. Inv => AnswersBeforeExit
    BY DEF Inv, QuietInv, AnswersBeforeExit
  <1> QED
    BY InitInv, NextInv, <1>1, PTL DEF Spec

(* A listener that failed is reported, even if a signal was taken first    *)
(* (main.go:86).                                                           *)
THEOREM FailureReported == Spec => []FailureIsReported
  <1>1. Inv => FailureIsReported
    BY DEF Inv
  <1> QED
    BY InitInv, NextInv, <1>1, PTL DEF Spec

(* A self-check that passes had every request answered, and leaves its     *)
(* directory only behind a request of somebody else, whatever timed out    *)
(* while it shut down (selfcheck.go:62, main.go:47).                       *)
THEOREM PassIsClean == Spec => []PassLeavesNoTrace
  <1>1. Inv => PassLeavesNoTrace
    BY DEF Inv, VerdictInv, LeftInv, PassLeavesNoTrace, Connections
  <1> QED
    BY InitInv, NextInv, <1>1, PTL DEF Spec
=============================================================================

------------------------------- MODULE Server -------------------------------
(***************************************************************************)
(* cmd/server: how the process starts, serves until a signal, and stops;   *)
(* and the self-check, which serves itself.                                *)
(*                                                                         *)
(* The goroutines are main, the one that runs Serve, and one per           *)
(* connection.  They share the server's shutdown flag and a channel of     *)
(* capacity one.  Clients connect whenever they like and a handler may     *)
(* take for ever (a client that does not read, a disk that does not        *)
(* answer): only the deadlines of main bound the waiting.                  *)
(*                                                                         *)
(* Abstractions.                                                           *)
(*   - net/http is modelled by what its documentation says: Shutdown       *)
(*     closes the listener, makes Serve return ErrServerClosed, closes     *)
(*     idle connections and waits for the others.                          *)
(*   - A deadline may pass at any moment it is running.                    *)
(*   - Opening the store and commits are steps (see Store).                *)
(*   - Nothing but a handler that still writes keeps a directory from      *)
(*     being removed.                                                      *)
(***************************************************************************)
EXTENDS Naturals, Sequences

CONSTANTS
    Modes,      \* how the process may be run: "serve", "selfcheck"
    Clients,    \* connections from outside
    Self,       \* the connection of the self-check
    Steps       \* requests of the self-check, 12 in the code

ASSUME ServerAssumption ==
    /\ Modes \subseteq {"serve", "selfcheck"}
    /\ Self \notin Clients
    /\ Steps \in Nat

VARIABLES
    mode,       \* the flag -selfcheck
    main,       \* where the main goroutine is
    serve,      \* where the goroutine that runs Serve is
    channel,    \* errCh or serveDone
    inShutdown, \* whether Shutdown was called
    conn,       \* the connections
    signalled,  \* whether signalCtx is done
    step,       \* requests of the self-check that were answered
    verdict,    \* what runSelfcheck is about to return
    dir,        \* whether the self-check's temporary directory exists
    status      \* how the process ended

vars == <<mode, main, serve, channel, inShutdown, conn, signalled, step, verdict, dir, status>>

serving  == <<serve, channel, inShutdown, conn>>
checking == <<step, verdict>>

Connections == Clients \cup {Self}

TypeOK ==
    /\ mode \in Modes
    /\ main \in {"dir", "open", "listen", "start", "notify", "wait", "check",
                 "shutdown", "join", "returned", "exited"}
    /\ serve \in {"absent", "starting", "accepting", "closed", "failed"}
    /\ channel \in {<<>>, <<"closed">>, <<"failed">>}
    /\ inShutdown \in BOOLEAN
    /\ conn \in [Connections -> {"none", "idle", "active"}]
    /\ signalled \in BOOLEAN
    /\ step \in 0 .. Steps
    /\ verdict \in {"none", "ok", "error"}
    /\ dir \in BOOLEAN
    /\ status \in {"none", "ok", "error", "killed"}

Init ==
    /\ mode \in Modes
    /\ main = IF mode = "selfcheck" THEN "dir" ELSE "open"
    /\ serve = "absent" /\ channel = <<>> /\ inShutdown = FALSE
    /\ conn = [c \in Connections |-> "none"]
    /\ signalled = FALSE
    /\ step = 0 /\ verdict = "none" /\ dir = FALSE
    /\ status = "none"

Alive == main # "exited"

-----------------------------------------------------------------------------
(* Starting *)

At(here, there) == main = here /\ main' = there

Return(result) == main' = "returned" /\ status' = result

MakeDir ==
    /\ At("dir", "open")
    /\ dir' = TRUE
    /\ UNCHANGED <<mode, serving, signalled, checking, status>>

Open ==
    /\ At("open", "listen")
    /\ UNCHANGED <<mode, serving, signalled, checking, dir, status>>

Listen ==
    /\ At("listen", "start")
    /\ UNCHANGED <<mode, serving, signalled, checking, dir, status>>

StartFails ==
    /\ main \in {"dir", "open", "listen"}
    /\ Return("error")
    /\ UNCHANGED <<mode, serving, signalled, checking, dir>>

Start ==
    /\ main = "start"
    /\ serve' = "starting"
    /\ main' = IF mode = "selfcheck" THEN "check" ELSE "notify"
    /\ UNCHANGED <<mode, channel, inShutdown, conn, signalled, checking, dir, status>>

Notify ==
    /\ At("notify", "wait")
    /\ UNCHANGED <<mode, serving, signalled, checking, dir, status>>

-----------------------------------------------------------------------------
(* Serving *)

(* Serve returns at once when Shutdown was called before it ran. *)
ServeBegins ==
    /\ serve = "starting"
    /\ ~inShutdown
    /\ serve' = "accepting"
    /\ UNCHANGED <<mode, main, channel, inShutdown, conn, signalled, checking, dir, status>>

ServeReturns(error) ==
    /\ serve' = error
    /\ channel' = <<error>>
    /\ UNCHANGED <<mode, main, inShutdown, conn, signalled, checking, dir, status>>

ServeClosed ==
    /\ serve \in {"starting", "accepting"}
    /\ inShutdown
    /\ ServeReturns("closed")

(* Accept fails for good. *)
ServeFails ==
    /\ serve = "accepting"
    /\ ~inShutdown
    /\ ServeReturns("failed")

SetConn(c, new) ==
    /\ conn' = [conn EXCEPT ![c] = new]
    /\ UNCHANGED <<mode, main, serve, channel, inShutdown, signalled, dir, status>>

Connect(c) ==
    /\ serve = "accepting" /\ ~inShutdown
    /\ conn[c] = "none"
    /\ SetConn(c, "active")
    /\ UNCHANGED checking

RequestAgain(c) ==
    /\ conn[c] = "idle"
    /\ SetConn(c, "active")
    /\ UNCHANGED checking

(* The handler has run and its answer is written. *)
Finish(c) ==
    /\ conn[c] = "active"
    /\ c = Self => main # "check"
    /\ SetConn(c, "idle")
    /\ UNCHANGED checking

-----------------------------------------------------------------------------
(* The self-check *)

(* Mutant: a request too many. *)
CheckRequest_OneMore ==
    /\ main = "check" /\ step <= Steps
    /\ Connect(Self) \/ RequestAgain(Self)

CheckRequest ==
    /\ main = "check" /\ step < Steps
    /\ Connect(Self) \/ RequestAgain(Self)

(* The answer arrives and is what the step expects. *)
CheckAnswered ==
    /\ main = "check"
    /\ conn[Self] = "active"
    /\ SetConn(Self, "idle")
    /\ step' = step + 1
    /\ UNCHANGED verdict

(* The deferred Shutdown begins, with the verdict fixed. *)
CheckEnds(result) ==
    /\ At("check", "shutdown")
    /\ verdict' = result
    /\ inShutdown' = TRUE
    /\ UNCHANGED <<mode, serve, channel, conn, signalled, step, dir, status>>

(* Mutant: the answer to the last request is not waited for. *)
CheckPasses_Early ==
    /\ step + 1 >= Steps /\ conn[Self] = "active"
    /\ CheckEnds("ok")

CheckPasses == step = Steps /\ CheckEnds("ok")

(* A wrong answer, or one of the deadlines of 3 and 12 seconds. *)
CheckFails == step < Steps /\ CheckEnds("error")

-----------------------------------------------------------------------------
(* Stopping *)

(* The select, when both channels are ready, takes either. *)
ServeErrorReceived ==
    /\ main = "wait"
    /\ channel # <<>>
    /\ channel' = <<>>
    /\ Return(IF Head(channel) = "closed" THEN "ok" ELSE "error")
    /\ UNCHANGED <<mode, serve, inShutdown, conn, signalled, checking, dir>>

(* Mutant: main closes the listener and waits for Serve alone. *)
SignalReceived_NoWait ==
    /\ At("wait", "join")
    /\ signalled
    /\ inShutdown' = TRUE
    /\ UNCHANGED <<mode, serve, channel, conn, signalled, checking, dir, status>>

SignalReceived ==
    /\ At("wait", "shutdown")
    /\ signalled
    /\ inShutdown' = TRUE
    /\ UNCHANGED <<mode, serve, channel, conn, signalled, checking, dir, status>>

CloseIdle == conn' = [c \in Connections |-> IF conn[c] = "idle" THEN "none" ELSE conn[c]]

ShutdownPolls ==
    /\ main = "shutdown"
    /\ \E c \in Connections : conn[c] = "idle"
    /\ CloseIdle
    /\ UNCHANGED <<mode, main, serve, channel, inShutdown, signalled, checking, dir, status>>

ShutdownDone ==
    /\ At("shutdown", "join")
    /\ \A c \in Connections : conn[c] # "active"
    /\ CloseIdle
    /\ UNCHANGED <<mode, serve, channel, inShutdown, signalled, checking, dir, status>>

(* Mutant: Shutdown is called without a deadline. *)
ShutdownTimesOut_Never == FALSE /\ UNCHANGED vars

(* After 8 seconds the process gives up with an error; the self-check,     *)
(* after 2, carries on.                                                    *)
ShutdownTimesOut ==
    /\ main = "shutdown"
    /\ IF mode = "serve" THEN Return("error") ELSE main' = "join" /\ UNCHANGED status
    /\ UNCHANGED <<mode, serving, signalled, checking, dir>>

(* Mutant: what Serve returned is received and not looked at. *)
Join_Ignores ==
    /\ main = "join"
    /\ channel # <<>>
    /\ channel' = <<>>
    /\ Return(IF mode = "selfcheck" THEN verdict ELSE "ok")
    /\ UNCHANGED <<mode, serve, inShutdown, conn, signalled, checking, dir>>

Join ==
    /\ main = "join"
    /\ channel # <<>>
    /\ channel' = <<>>
    /\ Return(IF mode = "selfcheck" THEN verdict
              ELSE IF Head(channel) = "closed" THEN "ok" ELSE "error")
    /\ UNCHANGED <<mode, serve, inShutdown, conn, signalled, checking, dir>>

(* The deferred cleanup, and the end of the process.  The error of         *)
(* RemoveAll is thrown away: a handler that outlived the Shutdown may      *)
(* still write into the directory and keep it from being removed.          *)
Exit ==
    /\ At("returned", "exited")
    /\ \/ dir' = FALSE
       \/ dir' = dir /\ \E c \in Connections : conn[c] = "active"
    /\ UNCHANGED <<mode, serving, signalled, checking, status>>

(* SIGINT and SIGTERM: before NotifyContext, after stop, and during the    *)
(* self-check they end the process where it is.  A second one is ignored.  *)
Signal ==
    /\ Alive
    /\ IF mode = "serve" /\ main \in {"wait", "shutdown", "join"}
       THEN /\ ~signalled
            /\ signalled' = TRUE
            /\ UNCHANGED <<main, status>>
       ELSE main' = "exited" /\ status' = "killed" /\ UNCHANGED signalled
    /\ UNCHANGED <<mode, serving, checking, dir>>

-----------------------------------------------------------------------------
Starting == MakeDir \/ Open \/ Listen \/ StartFails \/ Start \/ Notify

MainStep ==
    \/ Starting
    \/ CheckRequest \/ CheckPasses \/ CheckFails
    \/ ServeErrorReceived \/ SignalReceived
    \/ ShutdownPolls \/ ShutdownDone \/ Join \/ Exit

ServeStep == Alive /\ (ServeBegins \/ ServeClosed)

Next ==
    \/ MainStep
    \/ ShutdownTimesOut
    \/ ServeStep
    \/ Alive /\ ServeFails
    \/ Alive /\ CheckAnswered
    \/ Alive /\ \E c \in Clients : Connect(c) \/ RequestAgain(c)
    \/ Alive /\ \E c \in Connections : Finish(c)
    \/ Signal

Fairness ==
    /\ WF_vars(MainStep)
    /\ WF_vars(ServeStep)
    /\ WF_vars(ShutdownTimesOut)

Spec == Init /\ [][Next]_vars /\ Fairness

-----------------------------------------------------------------------------
(* A server that stops with status 0 has answered every request it had     *)
(* taken (main.go:83): Serve returns as soon as Shutdown begins, long      *)
(* before the handlers are done, and it is not Serve that main waits for.  *)
AnswersBeforeExit ==
    mode = "serve" /\ status = "ok" => \A c \in Connections : conn[c] # "active"

(* A listener that failed is never reported as a clean stop, when the      *)
(* failure and a signal come together and the select takes the signal too  *)
(* (main.go:73-88).                                                        *)
FailureIsReported == mode = "serve" /\ serve = "failed" => status # "ok"

(* A self-check that passes had all its requests answered before it shut   *)
(* the server down, so what it leaves behind, if anything, is held by a    *)
(* request that somebody else sent to its port: it looks neither at the    *)
(* result of Shutdown (selfcheck.go:62), which may give up with handlers   *)
(* still at work, nor at that of RemoveAll (main.go:47).                   *)
PassLeavesNoTrace ==
    mode = "selfcheck" /\ status = "ok" =>
        /\ step = Steps
        /\ main = "exited" /\ dir => \E c \in Clients : conn[c] = "active"

(* A signal that is caught stops the process, and the self-check ends by   *)
(* itself (README.md:37), while handlers and clients do what they like:    *)
(* a request that never finishes, a connection that comes back while the   *)
(* server shuts down, a signal that comes before Serve has run.            *)
Stops == (signalled \/ mode = "selfcheck") ~> main = "exited"
=============================================================================

-------------------------- MODULE GracefulShutdown --------------------------
(***************************************************************************)
(* serve_with_deadline of src/main.rs and wait_for_signal of               *)
(* src/shutdown.rs: the signal task, the server task with axum's graceful- *)
(* shutdown future, and main itself, connected by one tokio Notify.        *)
(*                                                                         *)
(* notify_waiters wakes the Notified futures that exist at that moment and *)
(* stores no permit; a Notified future exists once its task has called     *)
(* notified().  The three tasks run on a multi-threaded runtime.           *)
(***************************************************************************)
EXTENDS Naturals

CONSTANTS
    Reqs,       \* requests
    MaxSignals  \* bound: SIGTERM / SIGINT deliveries

ASSUME SignalsAssumption == MaxSignals \in Nat

VARIABLES
    main,      \* main task
    sig,       \* signal task
    serve,     \* axum::serve task
    grace,     \* future given to with_graceful_shutdown
    inflight,  \* requests accepted and not answered
    fresh,     \* requests that have not been sent
    handlers,  \* kinds of signals whose handler is installed
    signals    \* deliveries so far (bounded)

shutdownVars == <<main, sig, serve, grace, inflight, fresh, handlers, signals>>

Kinds == {"SIGINT", "SIGTERM"}

Ended == main \in {"exited", "killed"}

ShutdownTypeOK ==
    /\ main \in {"start", "spawned", "served", "waiting", "woken", "late", "exited", "killed"}
    /\ sig \in {"unborn", "spawned", "armed", "raised", "notified"}
    /\ serve \in {"unborn", "spawned", "accepting", "draining", "done"}
    /\ grace \in {"unborn", "spawned", "waiting", "woken"}
    /\ inflight \subseteq Reqs /\ fresh \subseteq Reqs
    /\ inflight \cap fresh = {}
    /\ handlers \subseteq Kinds
    /\ signals \in 0..MaxSignals
    /\ serve = "done" => inflight = {} /\ grace = "woken"

ShutdownInit ==
    /\ main = "start" /\ sig = "unborn" /\ serve = "unborn" /\ grace = "unborn"
    /\ inflight = {} /\ fresh = Reqs
    /\ handlers = {} /\ signals = 0

-----------------------------------------------------------------------------
(* main *)

spawn_signal_task ==
    /\ main = "start"
    /\ main' = "spawned" /\ sig' = "spawned"
    /\ UNCHANGED <<serve, grace, inflight, fresh, handlers, signals>>

spawn_serve ==
    /\ main = "spawned"
    /\ main' = "served" /\ serve' = "spawned"
    /\ UNCHANGED <<sig, grace, inflight, fresh, handlers, signals>>

(* main calls signal.notified(). *)
main_notified ==
    /\ main = "served"
    /\ main' = "waiting"
    /\ UNCHANGED <<sig, serve, grace, inflight, fresh, handlers, signals>>

(* The process ends with status st, and with it every request still running. *)
End(st) ==
    /\ main' = st
    /\ inflight' = {}
    /\ UNCHANGED <<sig, serve, grace, fresh, handlers, signals>>

(* Faulty variant: main returns without joining the server task. *)
join_skipped == main \in {"woken", "late"} /\ End("exited")

(* timeout(DRAIN_DEADLINE, serve_handle): the server task has ended. *)
join == main \in {"woken", "late"} /\ serve = "done" /\ End("exited")

(* timeout(DRAIN_DEADLINE, serve_handle): the deadline has passed. *)
drain_deadline == main = "late" /\ End("exited")

(* DRAIN_DEADLINE passes while main waits. *)
Deadline ==
    /\ main = "woken"
    /\ main' = "late"
    /\ UNCHANGED <<sig, serve, grace, inflight, fresh, handlers, signals>>

-----------------------------------------------------------------------------
(* Signal task *)

(* The first poll installs the handlers, which may fail: without the one of Ctrl-C the
   future completes at once, without the one of SIGTERM it goes on. *)
wait_for_signal(installed) ==
    /\ ~Ended /\ sig = "spawned"
    /\ handlers' = installed
    /\ sig' = IF "SIGINT" \in installed THEN "armed" ELSE "raised"
    /\ UNCHANGED <<main, serve, grace, inflight, fresh, signals>>

(* A delivery takes the default action unless its handler is installed, and has no
   receiver once the signal task has ended. *)
Signal(kind) ==
    /\ ~Ended /\ signals < MaxSignals
    /\ signals' = signals + 1
    /\ \/ /\ kind \notin handlers
          /\ main' = "killed" /\ inflight' = {}
          /\ UNCHANGED sig
       \/ /\ kind \in handlers
          /\ sig' = IF sig = "armed" THEN "raised" ELSE sig
          /\ UNCHANGED <<main, inflight>>
    /\ UNCHANGED <<serve, grace, fresh, handlers>>

(* Faulty variant: notify_one wakes a single waiter. *)
notify_one ==
    /\ ~Ended /\ sig = "raised"
    /\ sig' = "notified"
    /\ \/ /\ main' = IF main = "waiting" THEN "woken" ELSE main
          /\ UNCHANGED grace
       \/ /\ grace' = IF grace = "waiting" THEN "woken" ELSE grace
          /\ UNCHANGED main
    /\ UNCHANGED <<serve, inflight, fresh, handlers, signals>>

notify_waiters ==
    /\ ~Ended /\ sig = "raised"
    /\ sig' = "notified"
    /\ main' = IF main = "waiting" THEN "woken" ELSE main
    /\ grace' = IF grace = "waiting" THEN "woken" ELSE grace
    /\ UNCHANGED <<serve, inflight, fresh, handlers, signals>>

-----------------------------------------------------------------------------
(* Server task: axum spawns the graceful-shutdown future as a task of its own. *)

serve_start ==
    /\ ~Ended /\ serve = "spawned"
    /\ serve' = "accepting" /\ grace' = "spawned"
    /\ UNCHANGED <<main, sig, inflight, fresh, handlers, signals>>

grace_notified ==
    /\ ~Ended /\ grace = "spawned"
    /\ grace' = "waiting"
    /\ UNCHANGED <<main, sig, serve, inflight, fresh, handlers, signals>>

stop_accepting ==
    /\ ~Ended /\ serve = "accepting" /\ grace = "woken"
    /\ serve' = "draining"
    /\ UNCHANGED <<main, sig, grace, inflight, fresh, handlers, signals>>

drained ==
    /\ ~Ended /\ serve = "draining" /\ inflight = {}
    /\ serve' = "done"
    /\ UNCHANGED <<main, sig, grace, inflight, fresh, handlers, signals>>

accept(r) ==
    /\ ~Ended /\ serve = "accepting" /\ r \in fresh
    /\ inflight' = inflight \cup {r} /\ fresh' = fresh \ {r}
    /\ UNCHANGED <<main, sig, serve, grace, handlers, signals>>

(* A response is complete.  Nothing bounds a streamed body: it may never be. *)
finish(r) ==
    /\ ~Ended /\ r \in inflight
    /\ inflight' = inflight \ {r}
    /\ UNCHANGED <<main, sig, serve, grace, fresh, handlers, signals>>

Main == spawn_signal_task \/ spawn_serve \/ main_notified \/ join \/ drain_deadline

SignalTask == notify_waiters \/ \E installed \in SUBSET Kinds : wait_for_signal(installed)

Server == serve_start \/ grace_notified \/ stop_accepting \/ drained

ShutdownNext ==
    \/ Main \/ SignalTask \/ Server
    \/ Deadline
    \/ \E kind \in Kinds : Signal(kind)
    \/ \E r \in Reqs : accept(r) \/ finish(r)

ShutdownSpec == ShutdownInit /\ [][ShutdownNext]_shutdownVars

(* The runtime polls every woken task and time passes; requests may hang. *)
ShutdownFairSpec ==
    /\ ShutdownSpec
    /\ WF_shutdownVars(Main) /\ WF_shutdownVars(SignalTask) /\ WF_shutdownVars(Server) /\ WF_shutdownVars(Deadline)

-----------------------------------------------------------------------------
(* Properties. *)

(* "capping the drain phase": a clean exit drops a running request only after the
   drain deadline, also when the server never heard of the shutdown. *)
CutOnlyAtDeadline == [][main' = "exited" /\ main # "late" => inflight = {}]_shutdownVars

(* A signal that finds its waiters registered reaches both: main ends the process
   even if a request never finishes or the server was not woken, unless SIGTERM could
   not be handled and kills it, and the server stops accepting unless the process
   ends first. *)
WaitersAreServed ==
    /\ sig = "raised" /\ main = "waiting"
           ~> main = "exited" \/ (main = "killed" /\ handlers # Kinds)
    /\ sig = "raised" /\ grace = "waiting" ~> serve \in {"draining", "done"} \/ Ended
=============================================================================

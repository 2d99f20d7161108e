-------------------------- MODULE CoordinatorServer --------------------------
(***************************************************************************)
(* The network front end of the coordinator (src/server.cpp with the        *)
(* SocketWaiter of src/socket_internal.hpp): the accept thread, one thread  *)
(* per session, and the thread that calls Stop, over the publisher          *)
(* authority of the runtime.                                                *)
(*                                                                          *)
(* A step is what a thread does between two points where another thread     *)
(* can interfere: a runtime call, a critical section of Impl::mutex, a      *)
(* change of a socket.  The frames of a session are left out except         *)
(* RegisterPublisher, the only request whose handler changes the session;   *)
(* the other requests are the actions of RouteRuntime and of WireSession.   *)
(* Clients, operators and the threads of the runtime act at any time.       *)
(***************************************************************************)
EXTENDS PublisherAuthority

CONSTANTS
  Sessions,       \* the connections clients make
  MaxSessions,    \* Limits::max_sessions
  Registers       \* Registers[s]: the publishers the client of s registers

ASSUME ServerAssumption ==
  /\ MaxSessions \in Nat
  /\ Registers \in [Sessions -> SUBSET Publishers]
  /\ None \notin Sessions

VARIABLES
  thread,           \* how far each connection and its session thread are
  holds,            \* Session::publisher, worker_boot and registered, or None
  listed,           \* Impl::sessions
  active_sessions,  \* Impl::active_sessions
  signalled,        \* sessions whose waiter and socket Stop has signalled
  acceptor,         \* the accept thread: off, accepting
  stop,             \* how far Stop is; stopped also before Start
  to_signal,        \* the sessions Stop has copied and not yet visited
  target,           \* the session whose handle Stop holds, or None
  owner             \* history: the session that made p's registration, or None

serverVars == <<thread, holds, listed, active_sessions, signalled,
                acceptor, stop, to_signal, target, owner>>

vars == <<authorityVars, serverVars>>

\* The states of a session, in the order it goes through them: absent;
\* admitting (accepted, not in the table); serving and waiting (session_loop);
\* matched (finish_session found its own boot registered); leaving; unlisted
\* (handle cleared, no longer counted); gone (the thread has returned).
ThreadStates == {"absent", "admitting", "serving", "waiting", "matched",
                 "leaving", "unlisted", "gone"}

StopStates == {"running", "joining", "signalling", "checking", "asleep", "stopped"}

\* session->socket is a handle; the thread is counted in active_sessions.
Counted(s) == thread[s] \in {"serving", "waiting", "matched", "leaving"}

\* The thread of session s exists.
Alive(s) == Counted(s) \/ thread[s] = "unlisted"

Stopping == stop \in StopStates \ {"running"}

Holdings == [publisher : Publishers, worker_boot : Boots]

ASSUME HoldingsAssumption == None \notin Holdings

\* Type invariant; max_sessions bounds the sessions that are served.
ServerTypeOK ==
  /\ AuthorityTypeOK
  /\ thread \in [Sessions -> ThreadStates]
  /\ holds \in [Sessions -> Holdings \cup {None}]
  /\ listed \in SUBSET Sessions
  /\ active_sessions \in 0..MaxSessions
  /\ signalled \in SUBSET Sessions
  /\ acceptor \in {"off", "accepting"}
  /\ stop \in StopStates
  /\ to_signal \in SUBSET Sessions
  /\ target \in Sessions \cup {None}
  /\ owner \in [Publishers -> Sessions \cup {None}]

Init ==
  /\ AuthorityInit
  /\ thread = [s \in Sessions |-> "absent"]
  /\ holds = [s \in Sessions |-> None]
  /\ listed = {}
  /\ active_sessions = 0
  /\ signalled = {}
  /\ acceptor = "off"
  /\ stop = "stopped"
  /\ to_signal = {}
  /\ target = None
  /\ owner = [p \in Publishers |-> None]

Goto(s, state) == thread' = [thread EXCEPT ![s] = state]

-----------------------------------------------------------------------------
(* The accept thread *)

Start ==
  /\ stop = "stopped"
  /\ stop' = "running"
  /\ acceptor' = "accepting"
  /\ UNCHANGED <<authorityVars, thread, holds, listed, active_sessions,
                 signalled, to_signal, target, owner>>

\* Mutated form of Reaped: sessions that wait for a frame are reaped as well.
ReapedIdle == {s \in listed : thread[s] \in {"serving", "matched", "leaving"}}

\* reap_sessions: the sessions whose handle is gone leave the table.
Reaped == {s \in listed : Counted(s)}

Admitting == {s \in Sessions : thread[s] = "admitting"}

\* A client connects: accept_loop up to the creation of the waiter, which may
\* fail.
Accept(s) ==
  /\ acceptor = "accepting" /\ Admitting = {} /\ thread[s] = "absent"
  /\ ~Stopping
  /\ listed' = Reaped
  /\ Goto(s, "admitting") \/ Goto(s, "gone")
  /\ UNCHANGED <<authorityVars, holds, active_sessions, signalled, acceptor,
                 stop, to_signal, target, owner>>

\* Mutated form of HasRoom.
HasRoomForOneMore == active_sessions <= MaxSessions

HasRoom == active_sessions < MaxSessions

\* The locked section of accept_loop and the start of the session thread, or
\* the refusal of the connection.
Admit(s) ==
  /\ thread[s] = "admitting"
  /\ IF ~Stopping /\ HasRoom
     THEN /\ Goto(s, "serving")
          /\ listed' = listed \cup {s}
          /\ active_sessions' = active_sessions + 1
     ELSE /\ Goto(s, "gone")
          /\ UNCHANGED <<listed, active_sessions>>
  /\ UNCHANGED <<authorityVars, holds, signalled, acceptor, stop, to_signal,
                 target, owner>>

\* accept fails, or it returns a connection (at the latest the one that Stop
\* makes) to a server that is stopping: the accept thread ends.
AcceptorEnds ==
  /\ acceptor = "accepting" /\ Admitting = {}
  /\ acceptor' = "off"
  /\ UNCHANGED <<authorityVars, thread, holds, listed, active_sessions,
                 signalled, stop, to_signal, target, owner>>

-----------------------------------------------------------------------------
(* A session thread *)

\* session_loop passes the check of the stop flag and waits for input.
Wait(s) ==
  /\ thread[s] = "serving" /\ ~Stopping
  /\ Goto(s, "waiting")
  /\ UNCHANGED <<authorityVars, holds, listed, active_sessions, signalled,
                 acceptor, stop, to_signal, target, owner>>

\* A frame, the end of the stream or an error has arrived: the waiter returns,
\* unless shutdown was requested.
Receive(s) ==
  /\ thread[s] = "waiting" /\ s \notin signalled
  /\ Goto(s, "serving")
  /\ UNCHANGED <<authorityVars, holds, listed, active_sessions, signalled,
                 acceptor, stop, to_signal, target, owner>>

\* handle, RegisterPublisher: a registration the runtime accepts is remembered
\* by the session, the last one only.
HandleRegister(s, p, b, scope) ==
  /\ thread[s] = "serving" /\ ~Stopping
  /\ p \in Registers[s]
  /\ RegisterPublisher(p, b, scope)
  /\ holds' = [holds EXCEPT ![s] = [publisher |-> p, worker_boot |-> b]]
  /\ owner' = [owner EXCEPT ![p] = s]
  /\ UNCHANGED <<thread, listed, active_sessions, signalled, acceptor, stop,
                 to_signal, target>>

\* Mutated form of StillHeld: nothing is fenced once the server stops.
StillHeldWhileRunning(s) ==
  ~Stopping /\ holds[s] # None /\ holds[s].publisher \in Registered

\* LookupRegistration in finish_session names the boot of the session.
StillHeld(s) ==
  /\ holds[s] # None
  /\ holds[s].worker_boot \in LiveBoots(holds[s].publisher)

\* session_loop ends and finish_session looks the registration up.  It ends
\* because the server stops, because the waiter was signalled, or because the
\* client has closed the connection or broken the protocol.
EndLoop(s) ==
  /\ Goto(s, IF StillHeld(s) THEN "matched" ELSE "leaving")
  /\ UNCHANGED <<authorityVars, holds, listed, active_sessions, signalled,
                 acceptor, stop, to_signal, target, owner>>

EndWhenStopping(s) == thread[s] = "serving" /\ Stopping /\ EndLoop(s)

EndWhenWoken(s) ==
  /\ thread[s] = "waiting" /\ s \in signalled
  /\ EndLoop(s)

EndOnInput(s) == thread[s] = "serving" /\ EndLoop(s)

\* finish_session fences the publisher it has just looked up.
FenceOnClose(s) ==
  /\ thread[s] = "matched"
  /\ FencePublisher(holds[s].publisher, FALSE)
  /\ Goto(s, "leaving")
  /\ owner' = [owner EXCEPT ![holds[s].publisher] = None]
  /\ UNCHANGED <<holds, listed, active_sessions, signalled, acceptor, stop,
                 to_signal, target>>

\* Mutated form of Uncounted: the session still counts.
StillCounted == active_sessions

Uncounted == IF active_sessions > 0 THEN active_sessions - 1 ELSE 0

\* The locked section of finish_session: the handle is cleared and the session
\* no longer counts.
Unlist(s) ==
  /\ thread[s] = "leaving"
  /\ Goto(s, "unlisted")
  /\ active_sessions' = Uncounted
  /\ UNCHANGED <<authorityVars, holds, listed, signalled, acceptor, stop,
                 to_signal, target, owner>>

\* session_finished.notify_all: a sleeping Stop looks at its condition again.
Woken == IF stop = "asleep" THEN "checking" ELSE stop

\* Outside the lock the waiter and the socket are closed and Stop is notified;
\* the detached thread returns.
Release(s) ==
  /\ thread[s] = "unlisted"
  /\ Goto(s, "gone")
  /\ stop' = Woken
  /\ UNCHANGED <<authorityVars, holds, listed, active_sessions, signalled,
                 acceptor, to_signal, target, owner>>

-----------------------------------------------------------------------------
(* Stop *)

StopBegins ==
  /\ stop = "running"
  /\ stop' = "joining"
  /\ UNCHANGED <<authorityVars, thread, holds, listed, active_sessions,
                 signalled, acceptor, to_signal, target, owner>>

\* The accept thread has ended: the listener is closed and the table of sessions
\* is copied.
StopJoins ==
  /\ stop = "joining" /\ acceptor = "off"
  /\ stop' = "signalling"
  /\ to_signal' = listed
  /\ UNCHANGED <<authorityVars, thread, holds, listed, active_sessions,
                 signalled, acceptor, target, owner>>

\* The loop over the copied sessions reads session->socket without the lock ...
StopReadsHandle(s) ==
  /\ stop = "signalling" /\ target = None /\ s \in to_signal
  /\ to_signal' = to_signal \ {s}
  /\ target' = IF Counted(s) THEN s ELSE None
  /\ UNCHANGED <<authorityVars, thread, holds, listed, active_sessions,
                 signalled, acceptor, stop, owner>>

\* ... and signals the waiter and shuts the socket down.
StopSignals ==
  /\ target # None
  /\ signalled' = signalled \cup {target}
  /\ target' = None
  /\ UNCHANGED <<authorityVars, thread, holds, listed, active_sessions,
                 acceptor, stop, to_signal, owner>>

StopWaits ==
  /\ stop = "signalling" /\ target = None /\ to_signal = {}
  /\ stop' = "checking"
  /\ UNCHANGED <<authorityVars, thread, holds, listed, active_sessions,
                 signalled, acceptor, to_signal, target, owner>>

\* session_finished.wait: the condition holds, or Stop sleeps.
StopChecks ==
  /\ stop = "checking"
  /\ IF active_sessions = 0
     THEN stop' = "stopped" /\ listed' = {}
     ELSE stop' = "asleep" /\ UNCHANGED listed
  /\ UNCHANGED <<authorityVars, thread, holds, active_sessions, signalled,
                 acceptor, to_signal, target, owner>>

-----------------------------------------------------------------------------
\* What else happens to the authority: Open and administrative fences.  The
\* epoch is left alone: no step of a session looks at it.
AuthorityActs ==
  /\ UNCHANGED <<thread, holds, listed, active_sessions, signalled, acceptor,
                 stop, to_signal, target>>
  /\ \/ AuthorityOpen /\ UNCHANGED owner
     \/ \E p \in Publishers :
          \/ FencePublisher(p, TRUE) /\ owner' = [owner EXCEPT ![p] = None]
          \/ ClearAdministrativeFence(p) /\ UNCHANGED owner

SessionStep(s) ==
  \/ Wait(s) \/ EndWhenStopping(s) \/ EndWhenWoken(s) \/ FenceOnClose(s)
  \/ Unlist(s) \/ Release(s)

StopStep ==
  \/ StopJoins \/ StopSignals \/ StopWaits \/ StopChecks
  \/ \E s \in Sessions : StopReadsHandle(s)

Next ==
  \/ \E s \in Sessions :
       \/ Accept(s) \/ Admit(s) \/ SessionStep(s)
       \/ Receive(s) \/ EndOnInput(s)
       \/ \E p \in Publishers, b \in Boots, scope \in Scopes :
            HandleRegister(s, p, b, scope)
  \/ Start \/ AcceptorEnds \/ StopBegins \/ StopStep \/ AuthorityActs

Spec == Init /\ [][Next]_vars

\* Threads that can run do run, accept returns the connection Stop makes, and
\* the condition variable wakes its waiter.  Clients, operators and the callers
\* of Start and Stop are not fair.
FairSpec ==
  /\ Spec
  /\ \A s \in Sessions : WF_vars(SessionStep(s)) /\ WF_vars(Admit(s))
  /\ WF_vars(stop = "joining" /\ AcceptorEnds)
  /\ WF_vars(StopStep)

-----------------------------------------------------------------------------
(* Properties *)

(* active_sessions is the number of sessions whose handle is set, so the     *)
(* limit counts every admitted session once and Stop waits for each: the     *)
(* accept thread increments it, each session thread decrements it, and Stop  *)
(* and reap_sessions change the table in between.                            *)
ActiveSessionsExact ==
  active_sessions = Cardinality({s \in Sessions : Counted(s)})

(* A session that is over holds no registration: the boot it registered was  *)
(* fenced, or somebody else has registered the publisher since (server.hpp:  *)
(* "a session that registered a publisher fences that publisher's worker     *)
(* boot when the connection ends").                                          *)
EndedSessionHoldsNothing ==
  \A p \in Registered : owner[p] = None \/ thread[owner[p]] \in
    {"serving", "waiting", "matched"}

(* "A session that registered a publisher fences that publisher's worker     *)
(* boot when the connection ends" (server.hpp), for every publisher it       *)
(* registered: Session remembers the last one only.                          *)
SessionEndFencesBoots ==
  \A p \in Registered : \/ owner[p] = None
                        \/ thread[owner[p]] \in {"serving", "waiting", "matched"}
                        \/ registrations[p].worker_boot \in fenced_boots

(* The fence of a session that ends never removes the registration that      *)
(* another session has made with another boot (server.hpp: "A reincarnated   *)
(* worker that already re-registered with a fresh boot is therefore never    *)
(* disturbed by a lingering session teardown").                              *)
ReincarnationUndisturbed ==
  [][\A s \in Sessions :
       FenceOnClose(s) => LiveBoots(holds[s].publisher) \subseteq {holds[s].worker_boot}]_vars

(* Stop returns only when no session thread remains (server.hpp; README 12:  *)
(* "Shutdown joins every session thread before returning").                  *)
StoppedMeansNoThread == stop = "stopped" => \A s \in Sessions : ~Alive(s)

(* Stop does return, whatever the sessions are doing when it is called: none *)
(* is missing in the table it signals, and no wake-up of its wait is lost.   *)
StopReturns == (stop = "joining") ~> (stop = "stopped")

=============================================================================

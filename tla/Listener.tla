------------------------------ MODULE Listener ------------------------------
(***************************************************************************)
(* The listener of a channel: tnet.listener counts the Accept calls in     *)
(* progress, so that Close returns only when no connection can be accepted *)
(* any more, and Channel.serve calls Accept in a loop (tnet/listener.go,   *)
(* channel.go).  The kernel's listener is external.                        *)
(***************************************************************************)
EXTENDS Naturals, FiniteSets

CONSTANTS Servers,       \* goroutines that call Accept in a loop
          ListenClosers, \* goroutines that call Close
          MaxAccepts     \* bound on the connections and temporary errors

ASSUME ListenerBounds == MaxAccepts \in Nat /\ IsFiniteSet(Servers)

VARIABLES refs,      \* listener.refs
          open,      \* the underlying listener
          server,    \* where each serve is
          closer,    \* where each Close is
          accepted   \* connections and temporary errors Accept has returned

listenerVars == <<refs, open, server, closer, accepted>>

ListenerInit ==
    /\ refs = 0 /\ open = TRUE /\ accepted = 0
    /\ server = [s \in Servers |-> "loop"]
    /\ closer = [c \in ListenClosers |-> "idle"]

incRef(s) ==
    /\ server[s] = "loop"
    /\ refs' = refs + 1
    /\ server' = [server EXCEPT ![s] = "call"]
    /\ UNCHANGED <<open, closer, accepted>>

\* The underlying Accept begins: on a closed listener it can only fail.
BeginAccept(s) ==
    /\ server[s] = "call"
    /\ server' = [server EXCEPT ![s] = IF open THEN "accepting" ELSE "fails"]
    /\ UNCHANGED <<refs, open, closer, accepted>>

\* It returns a connection or a temporary error, even if the listener was closed since then.
Accepts(s) ==
    /\ server[s] = "accepting" /\ accepted < MaxAccepts
    /\ accepted' = accepted + 1
    /\ server' = [server EXCEPT ![s] = "accepted"]
    /\ UNCHANGED <<refs, open, closer>>

\* It fails.
AcceptFails(s) ==
    /\ server[s] \in {"accepting", "fails"} /\ ~open
    /\ server' = [server EXCEPT ![s] = "closed"]
    /\ UNCHANGED <<refs, open, closer, accepted>>

\* serve goes on after a connection, whose handshake has a goroutine of its own, and after a
\* temporary error; another error ends it.
ServeThen(how) == IF how = "accepted" THEN "loop" ELSE "end"

decRef(s) ==
    /\ server[s] \in {"accepted", "closed"}
    /\ refs' = refs - 1
    /\ server' = [server EXCEPT ![s] = IF refs' > 0 THEN ServeThen(@)
                                       ELSE IF @ = "accepted" THEN "signal" ELSE "lastSignal"]
    /\ UNCHANGED <<open, closer, accepted>>

\* mutant: no goroutine is woken
Broadcast_None(s) ==
    /\ server[s] \in {"signal", "lastSignal"}
    /\ server' = [server EXCEPT ![s] = IF @ = "signal" THEN "loop" ELSE "end"]
    /\ UNCHANGED <<refs, open, closer, accepted>>

\* The last reference was given back: after the unlock, all waiting Close calls are woken.
Broadcast(s) ==
    /\ server[s] \in {"signal", "lastSignal"}
    /\ server' = [server EXCEPT ![s] = IF @ = "signal" THEN "loop" ELSE "end"]
    /\ closer' = [c \in ListenClosers |-> IF closer[c] = "wait" THEN "check" ELSE closer[c]]
    /\ UNCHANGED <<refs, open, accepted>>

\* Close closes the underlying listener; when that fails, because it is closed, Close returns
\* the error.
ListenerClose(c) ==
    /\ closer[c] = "idle"
    /\ open' = FALSE
    /\ closer' = [closer EXCEPT ![c] = IF open THEN "check" ELSE "failed"]
    /\ UNCHANGED <<refs, server, accepted>>

\* mutant: Close does not wait
WaitForRefs_Not(c) ==
    /\ closer[c] = "check"
    /\ closer' = [closer EXCEPT ![c] = "closed"]
    /\ UNCHANGED <<refs, open, server, accepted>>

\* The loop around cond.Wait, which looks at refs under the lock
WaitForRefs(c) ==
    /\ closer[c] = "check"
    /\ closer' = [closer EXCEPT ![c] = IF refs > 0 THEN "wait" ELSE "closed"]
    /\ UNCHANGED <<refs, open, server, accepted>>

ServerStep(s) == incRef(s) \/ BeginAccept(s) \/ AcceptFails(s) \/ decRef(s) \/ Broadcast(s)
ListenerStep == (\E s \in Servers : ServerStep(s)) \/ \E c \in ListenClosers : WaitForRefs(c)
ListenerNext == ListenerStep \/ (\E s \in Servers : Accepts(s)) \/ \E c \in ListenClosers : ListenerClose(c)

\* Goroutines are scheduled, and a blocked Accept notices that its listener was closed.
ListenerSpec == ListenerInit /\ [][ListenerNext]_listenerVars /\ WF_listenerVars(ListenerStep)

(***************************************************************************)
(* Properties                                                              *)
(***************************************************************************)
\* "when Close returns, it will no longer accept any new connections" (tnet/listener.go:29):
\* after a Close that succeeded no Accept returns a connection, though Accept calls of before
\* may, and new ones may be made while Close waits.
NoAcceptAfterClose ==
    [][(\E c \in ListenClosers : closer[c] = "closed") => accepted' = accepted]_listenerVars

\* Close returns: no order of incRef, decRef and the broadcast after its unlock leaves it
\* waiting.
ListenerCloses == \A c \in ListenClosers : closer[c] = "check" ~> closer[c] = "closed"
=============================================================================

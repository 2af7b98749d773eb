----------------------------- MODULE ThriftCalls -----------------------------
(***************************************************************************)
(* A Thrift call from a generated client to a handler and back              *)
(* (thrift/client.go, thrift/server.go, retry.go and the generated code):   *)
(* over TChannel with retries, or over another transport to a processor.    *)
(* Attempts time out and lose their connection at any point; a server may   *)
(* still run the handler of an attempt the client has given up.             *)
(*                                                                         *)
(* Of a value only the attempt that produced it is kept, 0 being the value  *)
(* of a field that is not set.                                              *)
(***************************************************************************)
EXTENDS ThriftServices

CONSTANT MaxAttempts     \* RetryOptions.MaxAttempts

ASSUME AttemptsAssumption == MaxAttempts \in Nat \ {0}

VARIABLES m,         \* the method called
          via,       \* "tchannel" or "processor"
          retryOn,   \* RetryOptions.RetryOn
          skew,      \* how the client's IDL differs: not, in the arguments, in the exceptions
          pc, attempt,
          resp,      \* the client's result struct
          returned,  \* what the call returned
          inbox,     \* attempts the server has received and not handled
          answer,    \* the server's answer to each attempt
          handled    \* what the handler did in each attempt

callVars == <<m, via, retryOn, skew, pc, attempt, resp, returned, inbox, answer, handled>>

RetryOn == {"Default", "ConnectionError", "Never", "NonIdempotent", "Unexpected", "Idempotent"}
None == [k |-> "none"]
Ids(s) == {s[i].id : i \in DOMAIN s}
Exceptions(s) == Ids(s) \ {0}

CallsInit ==
    /\ via \in {"tchannel", "processor"}
    /\ m \in IF via = "tchannel" THEN Clients ELSE Processors
    /\ retryOn \in IF via = "tchannel" THEN RetryOn ELSE {"Never"}
    /\ skew \in IF via = "tchannel" THEN {"none", "args", "exceptions"} ELSE {"none", "args"}
    /\ pc = "start" /\ attempt = 0
    /\ resp = [id \in Ids(m.result) |-> 0]
    /\ returned = None
    /\ inbox = {}
    /\ answer = [n \in 1..MaxAttempts |-> None]
    /\ handled = [n \in 1..MaxAttempts |-> None]

\* mutant: a network error is retried whatever the options
CanRetry_Network(r, code) ==
    r # "Never" /\ (code \in {"busy", "declined", "network"}
                    \/ (r = "Unexpected" /\ code = "unexpected")
                    \/ (r = "Idempotent" /\ code # "badRequest"))

\* RetryOn.CanRetry
CanRetry(r, code) ==
    /\ r # "Never"
    /\ \/ code \in {"busy", "declined"}
       \/ r \in {"Default", "ConnectionError"} /\ code = "network"
       \/ r = "Unexpected" /\ code = "unexpected"
       \/ r = "Idempotent" /\ code # "badRequest"

\* Round n of RunWithRetry's loop ends with an error.
AttemptFails(n, code) ==
    IF CanRetry(retryOn, code) /\ n < MaxAttempts
    THEN pc' = "start" /\ UNCHANGED returned
    ELSE pc' = "done" /\ returned' = [k |-> "err", code |-> code]

\* The next attempt begins and the call is sent.
StartAttempt ==
    /\ pc = "start"
    /\ attempt' = attempt + 1
    /\ pc' = "wait" /\ inbox' = inbox \cup {attempt + 1}
    /\ UNCHANGED <<m, via, retryOn, skew, resp, returned, answer, handled>>

\* BeginCall fails: no peer, no connection, or the deadline has passed.
BeginCallFails ==
    /\ pc = "start" /\ via = "tchannel"
    /\ attempt' = attempt + 1
    /\ \E code \in {"network", "timeout", "unexpected"} : AttemptFails(attempt + 1, code)
    /\ UNCHANGED <<m, via, retryOn, skew, resp, inbox, answer, handled>>

(***************************************************************************)
(* The server                                                               *)
(***************************************************************************)
\* The method a call is routed to: the handler registered for it
Routed == {h \in IF via = "tchannel" THEN Servers ELSE Processors : h.service = m.service /\ h.name = m.name}

\* Required fields anywhere in the arguments
Requires(fs) == \E i \in DOMAIN fs : fs[i].need = "required"

\* What a handler may do: return, return nil for a struct, throw a declared exception or a
\* nil pointer to one, return another error (a system error keeps its code), and abandon
\* the request, which only a processor knows
HandlerDoes(h) ==
    {[k |-> "ok"]} \cup {[k |-> "exc", id |-> e] : e \in Exceptions(h.result)}
    \cup {[k |-> "err", code |-> c] : c \in {"unexpected", "busy"}}
    \cup (IF \E i \in DOMAIN h.result : h.result[i].id = 0 /\ h.result[i].type = "struct"
          THEN {[k |-> "okNil"]} ELSE {})
    \cup (IF Exceptions(h.result) # {} THEN {[k |-> "nilException"]} ELSE {})
    \cup (IF via = "processor" THEN {[k |-> "abandon"]} ELSE {})

\* mutant: an exception is sent as a success
Answer_ExceptionIsSuccess(d) ==
    CASE d.k = "ok" -> [k |-> "res", success |-> TRUE, set |-> {0}]
      [] d.k = "okNil" -> [k |-> "res", success |-> TRUE, set |-> {}]
      [] d.k = "exc" -> [k |-> "res", success |-> TRUE, set |-> {d.id}]
      [] d.k = "err" -> [k |-> "error", code |-> d.code]
      [] OTHER -> [k |-> "error", code |-> "unexpected"]

\* handle<Method> and Server.handle: the answer to a call whose handler did d.  A result is
\* an application error unless the handler returned; an error is a system error.
Answer(d) ==
    CASE d.k = "ok" -> [k |-> "res", success |-> TRUE, set |-> {0}]
      [] d.k = "okNil" -> [k |-> "res", success |-> TRUE, set |-> {}]
      [] d.k = "exc" -> [k |-> "res", success |-> FALSE, set |-> {d.id}]
      [] d.k = "err" -> [k |-> "error", code |-> d.code]
      [] OTHER -> [k |-> "error", code |-> "unexpected"]

\* Process: the answer is a reply with the result, or a TApplicationException.
Reply(d) ==
    CASE d.k \in {"ok", "okNil", "exc"} -> [Answer(d) EXCEPT !.success = TRUE]
      [] d.k = "abandon" -> None
      [] OTHER -> [k |-> "error", code |-> "unexpected"]

\* The server handles attempt n: an unknown method or arguments that cannot be read are a
\* bad request, else the handler runs.
Handle(n) ==
    /\ n \in inbox
    /\ inbox' = inbox \ {n}
    /\ IF Routed = {} \/ (skew = "args" /\ \E h \in Routed : Requires(h.args))
       THEN answer' = [answer EXCEPT ![n] = [k |-> "error", code |-> "badRequest"]] /\ UNCHANGED handled
       ELSE \E h \in Routed : \E d \in HandlerDoes(h) :
              /\ handled' = [handled EXCEPT ![n] = d]
              /\ answer' = [answer EXCEPT ![n] = IF via = "tchannel" THEN Answer(d) ELSE Reply(d)]
    /\ UNCHANGED <<m, via, retryOn, skew, pc, attempt, resp, returned>>

\* Busy and declined are sent by a channel or relay that does not take the call.
Refuse(n) ==
    /\ n \in inbox /\ via = "tchannel"
    /\ inbox' = inbox \ {n}
    /\ \E c \in {"busy", "declined"} : answer' = [answer EXCEPT ![n] = [k |-> "error", code |-> c]]
    /\ UNCHANGED <<m, via, retryOn, skew, pc, attempt, resp, returned, handled>>

(***************************************************************************)
(* The client reads the answer.                                             *)
(***************************************************************************)
\* Exceptions the client's code knows
KnownExceptions == IF skew = "exceptions" THEN {} ELSE Exceptions(m.result)

\* resp after the fields of the answer were read into it; the attempts before left theirs
ReadInto(set) == [id \in DOMAIN resp |-> IF id \in set /\ (id = 0 \/ id \in KnownExceptions)
                                         THEN attempt ELSE resp[id]]

\* What the generated client returns: over TChannel the exceptions count only for an
\* application error; the client of a processor looks at them first and then for a result.
Result(success, r) ==
    LET excs == {id \in DOMAIN r \ {0} : r[id] # 0}
        first == CHOOSE id \in excs : \A other \in excs : id <= other
        ok == [k |-> "ok", v |-> IF 0 \in DOMAIN r THEN r[0] ELSE 0] IN
    IF via = "tchannel" /\ success THEN ok
    ELSE IF excs # {} THEN [k |-> "exc", id |-> first]
    ELSE IF via = "tchannel" \/ \E i \in DOMAIN m.result : m.result[i].id = 0 /\ m.result[i].type = "struct" /\ r[0] = 0
         THEN [k |-> "err", code |-> "unknownResult"]
    ELSE ok

\* readResponse reads everything.
ClientReads ==
    /\ pc = "wait" /\ answer[attempt].k # "none"
    /\ LET a == answer[attempt] IN
       IF a.k = "error" THEN AttemptFails(attempt, a.code) /\ UNCHANGED resp
       ELSE /\ resp' = ReadInto(a.set)
            /\ pc' = "done" /\ returned' = Result(a.success, resp')
    /\ UNCHANGED <<m, via, retryOn, skew, attempt, inbox, answer, handled>>

\* The connection breaks while the client waits, or when a part of the response was read.
ConnectionBreaks ==
    /\ pc = "wait"
    /\ AttemptFails(attempt, "network")
    /\ resp' \in {resp} \cup (IF answer[attempt].k = "res" THEN {ReadInto(answer[attempt].set)} ELSE {})
    /\ UNCHANGED <<m, via, retryOn, skew, attempt, inbox, answer, handled>>

\* mutant: the deadline is only looked at when an answer is there
AttemptTimesOut_Answered ==
    /\ pc = "wait" /\ answer[attempt].k # "none"
    /\ AttemptFails(attempt, "timeout")
    /\ UNCHANGED <<m, via, retryOn, skew, attempt, resp, inbox, answer, handled>>

\* The deadline of the attempt passes.
AttemptTimesOut ==
    /\ pc = "wait"
    /\ AttemptFails(attempt, "timeout")
    /\ UNCHANGED <<m, via, retryOn, skew, attempt, resp, inbox, answer, handled>>

ClientStep == StartAttempt \/ ClientReads \/ AttemptTimesOut
CallsNext == ClientStep \/ BeginCallFails \/ ConnectionBreaks
             \/ \E n \in 1..MaxAttempts : Handle(n) \/ Refuse(n)

CallsSpec == CallsInit /\ [][CallsNext]_callVars

\* A context has a deadline, so an attempt ends.
CallsFair == CallsSpec /\ WF_callVars(ClientStep)

(***************************************************************************)
(* Properties                                                               *)
(***************************************************************************)
\* A client never reports success unless the handler of its last attempt returned, and the
\* value it returned is the one reported: not an exception, an error, or what an earlier
\* attempt left in the result struct.  An exception it reports was thrown by the handler in one
\* of the attempts.  A call whose client and server were generated from the same IDL is never
\* a bad request: the method is routed and its arguments are read.
ResultHonest ==
    /\ returned.k = "ok" => \/ handled[attempt].k = "okNil"
                            \/ handled[attempt].k = "ok" /\ (0 \in Ids(m.result) => returned.v = attempt)
    /\ returned.k = "exc" => \E n \in 1..attempt : handled[n] = [k |-> "exc", id |-> returned.id]
    /\ skew = "none" => \A n \in 1..MaxAttempts : answer[n] # [k |-> "error", code |-> "badRequest"]

\* "RetryNonIdempotent will retry errors that occur before a request has been picked up"
\* (retry.go:48): the handler takes such a call at most once, also when attempts time out
\* or break off while the server still works on them.
AtMostOnce ==
    retryOn \in {"Never", "NonIdempotent"} =>
        LET taken == {n \in 1..MaxAttempts : handled[n] \notin {None, [k |-> "err", code |-> "busy"]}} IN
        \A n, o \in taken : n = o

\* A call that was begun returns, whatever the attempts and the server do: the deadline of
\* the context ends an attempt that nobody answers, and there are MaxAttempts of them.
CallReturns == attempt > 0 ~> pc = "done"
=============================================================================

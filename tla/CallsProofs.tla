----------------------------- MODULE CallsProofs ----------------------------
(***************************************************************************)
(* Proofs about ThriftCalls, for every method of the generated services,   *)
(* every option for retries and any number of attempts: the client reports *)
(* what the handler did, and a call that may not be repeated is handled at *)
(* most once.  An answer is tied to what the handler of its attempt did    *)
(* (AnswerOf), and the result struct, which the attempts share, to the     *)
(* attempt that left a field there (RespOK).                               *)
(* And about the Hyperbahn client that makes such calls, Advertise.        *)
(***************************************************************************)
EXTENDS ThriftCalls, Advertise, TLAPS

(* Thrift calls *)

\* The attempts of a call
Attempts == 1..MaxAttempts

\* What a handler may have done in an attempt that can be made again
NotTaken == {None, [k |-> "err", code |-> "busy"]}
\* The handler threw exception e in attempt n.
Threw(n, e) == handled[n] = [k |-> "exc", id |-> e]

\* The type of each variable, and how far the attempts are
CallsTypeOK ==
    /\ \/ via = "tchannel" /\ m \in Clients
       \/ via = "processor" /\ m \in Processors /\ skew # "exceptions"
    /\ pc \in {"start", "wait", "done"} /\ attempt \in 0..MaxAttempts
    /\ (pc = "start" => attempt < MaxAttempts) /\ (pc # "start" => attempt > 0)
    /\ inbox \subseteq 1..attempt
    /\ resp = [id \in Ids(m.result) |-> resp[id]]
    /\ answer = [n \in Attempts |-> answer[n]] /\ handled = [n \in Attempts |-> handled[n]]

\* Answer a is one that a handler that did d may lead to.
Says(d, a) ==
    \/ a = None
    \/ /\ a.k = "error"
       /\ a.code \in {"busy", "declined"} => d \in NotTaken
       /\ a.code = "badRequest" => skew # "none"
    \/ /\ a.k = "res"
       /\ \/ d.k = "ok" /\ a.set = {0}
          \/ d.k = "okNil" /\ a.set = {}
          \/ \E e \in Exceptions(m.result) :
               d = [k |-> "exc", id |-> e] /\ a.set = {e} /\ (via = "tchannel" => a.success = FALSE)

\* The answer to attempt n says what its handler did.
AnswerOf(n) == Says(handled[n], answer[n])

\* An attempt that is to come, or that the server has yet to handle, has done nothing; one
\* that was made again was not taken.
AttemptOK(n) ==
    /\ n > attempt \/ n \in inbox => answer[n] = None /\ handled[n] = None
    /\ retryOn \in {"Never", "NonIdempotent"} /\ (n < attempt \/ (n = attempt /\ pc = "start")) =>
         n \notin inbox /\ handled[n] \in NotTaken

\* An exception in the result struct was thrown in the attempt that left it there.
RespOK ==
    \A id \in Ids(m.result) \ {0} : resp[id] # 0 =>
        resp[id] \in 1..attempt /\ resp[id] \notin inbox /\ Threw(resp[id], id)

\* What the client returned is what the handler did: success in the last attempt, with its
\* value, or an exception of some attempt.
ReturnedOK ==
    /\ pc # "done" => returned = None
    /\ returned.k = "ok" =>
         /\ attempt \notin inbox
         /\ \/ handled[attempt].k = "okNil"
            \/ handled[attempt].k = "ok" /\ (0 \in Ids(m.result) => returned.v = attempt)
    /\ returned.k = "exc" => \E n \in 1..attempt : n \notin inbox /\ Threw(n, returned.id)

\* The inductive invariant
CallsInv ==
    /\ CallsTypeOK /\ RespOK /\ ReturnedOK
    /\ \A n \in Attempts : AnswerOf(n) /\ AttemptOK(n)
-----------------------------------------------------------------------------
(* The methods *)

\* The methods of all services, in the terms of their structs
Methods ==
    {Method("Meta", "health", MetaHealthArgs, MetaHealthResult),
     Method("Meta", "thriftIDL", MetaThriftIDLArgs, MetaThriftIDLResult),
     Method("Meta", "versionInfo", MetaVersionInfoArgs, MetaVersionInfoResult),
     Method("Hyperbahn", "discover", HyperbahnDiscoverArgs, HyperbahnDiscoverResult),
     Method("baseService", "HealthCheck", BaseServiceHealthCheckArgs, BaseServiceHealthCheckResult),
     Method("KeyValue", "HealthCheck", BaseServiceHealthCheckArgs, BaseServiceHealthCheckResult),
     Method("Admin", "HealthCheck", BaseServiceHealthCheckArgs, BaseServiceHealthCheckResult),
     Method("KeyValue", "Get", KeyValueGetArgs, KeyValueGetResult),
     Method("KeyValue", "Set", KeyValueSetArgs, KeyValueSetResult),
     Method("Admin", "clearAll", AdminClearAllArgs, AdminClearAllResult),
     Method("Base", "BaseCall", BaseBaseCallArgs, BaseBaseCallResult),
     Method("First", "BaseCall", BaseBaseCallArgs, BaseBaseCallResult),
     Method("First", "Echo", FirstEchoArgs, FirstEchoResult),
     Method("First", "Healthcheck", FirstHealthcheckArgs, FirstHealthcheckResult),
     Method("First", "AppError", FirstAppErrorArgs, FirstAppErrorResult),
     Method("Second", "Test", SecondTestArgs, SecondTestResult)}

\* The generated clients, servers and processors have the same methods, with the same structs.
LEMMA SameMethods == Servers = Methods /\ Clients = Methods /\ Processors = Methods
<1>1. Servers = Methods
  <2>1. Servers = tchanMetaServer \cup tchanHyperbahnServer \cup tchanBaseServiceServer \cup tchanKeyValueServer
                  \cup tchanAdminServer \cup tchanBaseServer \cup tchanFirstServer \cup tchanSecondServer
    BY DEF Servers
  <2>2. Servers \subseteq Methods
    BY <2>1, Zenon DEF Methods, tchanMetaServer, tchanHyperbahnServer, tchanBaseServiceServer, tchanKeyValueServer,
       tchanAdminServer, tchanBaseServer, tchanFirstServer, tchanSecondServer, handleHealth, handleThriftIDL,
       handleVersionInfo, handleDiscover, handleHealthCheck, handleGet, handleSet, handleClearAll, handleBaseCall,
       handleEcho, handleHealthcheck, handleAppError, handleTest
  <2>3. Methods \subseteq Servers
    BY <2>1, Zenon DEF Methods, tchanMetaServer, tchanHyperbahnServer, tchanBaseServiceServer, tchanKeyValueServer,
       tchanAdminServer, tchanBaseServer, tchanFirstServer, tchanSecondServer, handleHealth, handleThriftIDL,
       handleVersionInfo, handleDiscover, handleHealthCheck, handleGet, handleSet, handleClearAll, handleBaseCall,
       handleEcho, handleHealthcheck, handleAppError, handleTest
  <2> QED BY <2>2, <2>3, Zenon
<1>2. Clients = Methods
  <2>1. Clients = tchanMetaClient \cup tchanHyperbahnClient \cup tchanBaseServiceClient("baseService")
                  \cup tchanKeyValueClient \cup tchanAdminClient \cup tchanBaseClient("Base") \cup tchanFirstClient
                  \cup tchanSecondClient
    BY DEF Clients
  <2>2. Clients \subseteq Methods
    BY <2>1, Zenon DEF Methods, tchanMetaClient, tchanHyperbahnClient, tchanBaseServiceClient, tchanKeyValueClient,
       tchanAdminClient, tchanBaseClient, tchanFirstClient, tchanSecondClient
  <2>3. Methods \subseteq Clients
    BY <2>1, Zenon DEF Methods, tchanMetaClient, tchanHyperbahnClient, tchanBaseServiceClient, tchanKeyValueClient,
       tchanAdminClient, tchanBaseClient, tchanFirstClient, tchanSecondClient
  <2> QED BY <2>2, <2>3, Zenon
<1>3. Processors = Methods
  <2>1. Processors = MetaProcessor \cup HyperbahnProcessor \cup BaseServiceProcessor("baseService")
                     \cup KeyValueProcessor \cup AdminProcessor \cup BaseProcessor("Base") \cup FirstProcessor
                     \cup SecondProcessor
    BY DEF Processors
  <2>2. Processors \subseteq Methods
    BY <2>1, Zenon DEF Methods, MetaProcessor, HyperbahnProcessor, BaseServiceProcessor, KeyValueProcessor,
       AdminProcessor, BaseProcessor, FirstProcessor, SecondProcessor, metaProcessorHealth, metaProcessorThriftIDL,
       metaProcessorVersionInfo, hyperbahnProcessorDiscover, baseServiceProcessorHealthCheck, keyValueProcessorGet,
       keyValueProcessorSet, adminProcessorClearAll, baseProcessorBaseCall, firstProcessorEcho,
       firstProcessorHealthcheck, firstProcessorAppError, secondProcessorTest
  <2>3. Methods \subseteq Processors
    BY <2>1, Zenon DEF Methods, MetaProcessor, HyperbahnProcessor, BaseServiceProcessor, KeyValueProcessor,
       AdminProcessor, BaseProcessor, FirstProcessor, SecondProcessor, metaProcessorHealth, metaProcessorThriftIDL,
       metaProcessorVersionInfo, hyperbahnProcessorDiscover, baseServiceProcessorHealthCheck, keyValueProcessorGet,
       keyValueProcessorSet, adminProcessorClearAll, baseProcessorBaseCall, firstProcessorEcho,
       firstProcessorHealthcheck, firstProcessorAppError, secondProcessorTest
  <2> QED BY <2>2, <2>3, Zenon
<1> QED BY <1>1, <1>2, <1>3, Zenon

\* A service has one method of a name.
LEMMA OneMethod ==
    \A h, g \in Methods : h.service = g.service /\ h.name = g.name => h = g
<1>1. \A s, n, a, r : Method(s, n, a, r).service = s /\ Method(s, n, a, r).name = n BY DEF Method
<1> QED BY <1>1 DEF Methods

\* The result structs have the success and at most two exceptions.
LEMMA ResultIds ==
    \A h \in Methods : Ids(h.result) \subseteq {0, 1, 2}
<1>1. \A s, n, a, r : Method(s, n, a, r).result = r BY DEF Method
<1>2. /\ \A i, t, d : Field(i, t, d).id = i
      /\ \A i, d, o : StructField(i, d, o).id = i
  BY DEF Field, StructField
<1>3. /\ Ids(<<>>) = {}
      /\ \A x : Ids(<<x>>) = {x.id}
      /\ \A x, y, z : Ids(<<x, y, z>>) = {x.id, y.id, z.id}
  BY DEF Ids
<1>4. /\ \A i, t, d : Ids(<<Field(i, t, d)>>) = {i}
      /\ \A i, d, o : Ids(<<StructField(i, d, o)>>) = {i}
  <2>1. ASSUME NEW i, NEW t, NEW d PROVE Ids(<<Field(i, t, d)>>) = {i}
    <3>1. Ids(<<Field(i, t, d)>>) = {Field(i, t, d).id} BY <1>3, Zenon
    <3> QED BY <1>2, <3>1, Zenon
  <2>2. ASSUME NEW i, NEW d, NEW o PROVE Ids(<<StructField(i, d, o)>>) = {i}
    <3>1. Ids(<<StructField(i, d, o)>>) = {StructField(i, d, o).id} BY <1>3, Zenon
    <3> QED BY <1>2, <3>1, Zenon
  <2> QED BY <2>1, <2>2, Zenon
<1> DEFINE Few(r) == Ids(r) \subseteq {0, 1, 2}
<1>5. /\ \A r : Ids(r) = {} \/ Ids(r) = {0} => Few(r)
      /\ \A r : Ids(r) = {1} => Few(r)
      /\ \A r : Ids(r) = {0, 1, 2} => Few(r)
  BY SMT
<1> HIDE DEF Few
<1>6. Few(MetaHealthResult) /\ Few(MetaThriftIDLResult) /\ Few(MetaVersionInfoResult)
  <2>1. Ids(MetaHealthResult) = {0} BY <1>4, Zenon DEF MetaHealthResult
  <2>2. Ids(MetaThriftIDLResult) = {0} BY <1>4, Zenon DEF MetaThriftIDLResult
  <2>3. Ids(MetaVersionInfoResult) = {0} BY <1>4, Zenon DEF MetaVersionInfoResult
  <2> QED BY <1>5, <2>1, <2>2, <2>3, Zenon
<1>7. Few(BaseServiceHealthCheckResult) /\ Few(KeyValueSetResult) /\ Few(AdminClearAllResult)
  <2>1. Ids(BaseServiceHealthCheckResult) = {0} BY <1>4, Zenon DEF BaseServiceHealthCheckResult
  <2>2. Ids(KeyValueSetResult) = {1} BY <1>4, Zenon DEF KeyValueSetResult
  <2>3. Ids(AdminClearAllResult) = {1} BY <1>4, Zenon DEF AdminClearAllResult
  <2> QED BY <1>5, <2>1, <2>2, <2>3, Zenon
<1>8. Few(FirstEchoResult) /\ Few(FirstHealthcheckResult)
  <2>1. Ids(FirstEchoResult) = {0} BY <1>4, Zenon DEF FirstEchoResult
  <2>2. Ids(FirstHealthcheckResult) = {0} BY <1>4, Zenon DEF FirstHealthcheckResult
  <2> QED BY <1>5, <2>1, <2>2, Zenon
<1>9. Few(HyperbahnDiscoverResult)
  <2>1. Ids(HyperbahnDiscoverResult) = {0, 1, 2} BY <1>2, <1>3 DEF HyperbahnDiscoverResult
  <2> QED BY <2>1, <1>5, Zenon
<1>10. Few(KeyValueGetResult)
  <2>1. Ids(KeyValueGetResult) = {0, 1, 2} BY <1>2, <1>3 DEF KeyValueGetResult
  <2> QED BY <2>1, <1>5, Zenon
<1>11. Few(BaseBaseCallResult) /\ Few(FirstAppErrorResult) /\ Few(SecondTestResult)
  BY <1>3, <1>5, Zenon DEF BaseBaseCallResult, FirstAppErrorResult, SecondTestResult
<1>12. \A h \in Methods : Few(h.result)
  <2> SUFFICES ASSUME NEW h \in Methods PROVE Few(h.result) OBVIOUS
  <2>1. \A s, n, a, r : h = Method(s, n, a, r) /\ Few(r) => Few(h.result) BY <1>1
  <2> QED BY <2>1, <1>6, <1>7, <1>8, <1>9, <1>10, <1>11, Zenon DEF Methods
<1> QED BY <1>12, Zenon DEF Few
-----------------------------------------------------------------------------
(* A handler and its answer *)

\* The server routes a call to the method that the client called.
LEMMA RoutedIsMethod == CallsTypeOK => m \in Methods /\ Routed = {m}
<1> SUFFICES ASSUME CallsTypeOK PROVE m \in Methods /\ Routed = {m} OBVIOUS
<1>1. m \in Methods BY SameMethods, Zenon DEF CallsTypeOK
<1>2. Routed = {h \in Methods : h.service = m.service /\ h.name = m.name}
  BY SameMethods DEF Routed
<1> QED BY <1>1, <1>2, OneMethod

\* The answer of a TChannel server says what the handler did.
LEMMA AnswersSay ==
    ASSUME NEW d \in HandlerDoes(m) PROVE Says(d, Answer(d))
<1>1. CASE d = [k |-> "ok"] BY <1>1 DEF Says, Answer
<1>2. CASE d = [k |-> "okNil"] BY <1>2 DEF Says, Answer
<1>3. CASE \E e \in Exceptions(m.result) : d = [k |-> "exc", id |-> e] 
  <2>1. PICK e \in Exceptions(m.result) : d = [k |-> "exc", id |-> e] BY <1>3
  <2>2. Answer(d) = [k |-> "res", success |-> FALSE, set |-> {e}] BY <2>1 DEF Answer
  <2> QED BY <2>1, <2>2 DEF Says
<1>4. CASE d = [k |-> "err", code |-> "busy"] BY <1>4 DEF Says, Answer, NotTaken
<1>5. CASE d = [k |-> "err", code |-> "unexpected"] BY <1>5 DEF Says, Answer
<1>6. CASE d = [k |-> "nilException"] \/ d = [k |-> "abandon"] BY <1>6 DEF Says, Answer
<1> QED BY <1>1, <1>2, <1>3, <1>4, <1>5, <1>6 DEF HandlerDoes

\* The reply of an Apache Thrift processor says what the handler did.
LEMMA RepliesSay ==
    ASSUME NEW d \in HandlerDoes(m), via = "processor" PROVE Says(d, Reply(d))
<1>1. CASE d = [k |-> "ok"] BY <1>1 DEF Says, Answer, Reply
<1>2. CASE d = [k |-> "okNil"] BY <1>2 DEF Says, Answer, Reply
<1>3. CASE \E e \in Exceptions(m.result) : d = [k |-> "exc", id |-> e] 
  <2>1. PICK e \in Exceptions(m.result) : d = [k |-> "exc", id |-> e] BY <1>3
  <2>2. Answer(d) = [k |-> "res", success |-> FALSE, set |-> {e}] BY <2>1 DEF Answer
  <2>3. d.k = "exc" BY <2>1
  <2>4. Reply(d) = [Answer(d) EXCEPT !.success = TRUE] BY <2>3 DEF Reply
  <2>5. Reply(d).k = "res" /\ Reply(d).set = {e} BY <2>2, <2>4
  <2> QED BY <2>1, <2>5 DEF Says
<1>4. CASE d = [k |-> "err", code |-> "busy"] BY <1>4 DEF Says, Reply
<1>5. CASE d = [k |-> "err", code |-> "unexpected"] BY <1>5 DEF Says, Reply
<1>6. CASE d = [k |-> "nilException"] BY <1>6 DEF Says, Reply
<1>7. CASE d = [k |-> "abandon"] BY <1>7 DEF Says, Reply
<1> QED BY <1>1, <1>2, <1>3, <1>4, <1>5, <1>6, <1>7 DEF HandlerDoes
-----------------------------------------------------------------------------
(* The client's steps *)

\* An attempt that begins keeps the invariant.
LEMMA StartKeeps == CallsInv /\ StartAttempt => CallsInv'
<1> SUFFICES ASSUME CallsInv, StartAttempt PROVE CallsInv' OBVIOUS
<1> USE AttemptsAssumption
<1>0. /\ pc = "start" /\ pc' = "wait" /\ attempt' = attempt + 1 /\ inbox' = inbox \cup {attempt + 1}
      /\ m' = m /\ via' = via /\ retryOn' = retryOn /\ skew' = skew /\ resp' = resp /\ returned' = returned
      /\ answer' = answer /\ handled' = handled
  BY DEF StartAttempt
<1>1. CallsTypeOK' BY <1>0 DEF CallsInv, CallsTypeOK, Attempts
<1>2. RespOK' BY <1>0 DEF CallsInv, CallsTypeOK, RespOK, Threw
<1>3. ReturnedOK' BY <1>0 DEF CallsInv, ReturnedOK, None
<1>4. \A n \in Attempts : AnswerOf(n)' BY <1>0, Zenon DEF CallsInv, AnswerOf, Says
<1>5. \A n \in Attempts : AttemptOK(n)' BY <1>0 DEF CallsInv, CallsTypeOK, AttemptOK, Attempts
<1> QED BY <1>1, <1>2, <1>3, <1>4, <1>5 DEF CallsInv, Attempts

\* An attempt that fails is made again or its error is returned; without the option to retry
\* idempotent calls, only after busy and declined.
LEMMA FailureReturns ==
    ASSUME NEW n, NEW code, AttemptFails(n, code), returned = None
    PROVE  /\ \/ pc' = "start" /\ n < MaxAttempts /\ returned' = None
              \/ pc' = "done" /\ returned' = [k |-> "err", code |-> code]
           /\ pc' = "start" /\ retryOn \in {"Never", "NonIdempotent"} => code \in {"busy", "declined"}
BY DEF AttemptFails, CanRetry

\* An attempt that cannot be sent keeps the invariant.
LEMMA BeginFailsKeeps == CallsInv /\ BeginCallFails => CallsInv'
<1> SUFFICES ASSUME CallsInv, BeginCallFails PROVE CallsInv' OBVIOUS
<1> USE AttemptsAssumption
<1>0. /\ pc = "start" /\ attempt' = attempt + 1 /\ inbox' = inbox
      /\ m' = m /\ via' = via /\ retryOn' = retryOn /\ skew' = skew /\ resp' = resp
      /\ answer' = answer /\ handled' = handled
  BY DEF BeginCallFails
<1>a. returned = None BY <1>0 DEF CallsInv, ReturnedOK
<1>b. \/ pc' = "start" /\ attempt + 1 < MaxAttempts /\ returned' = None
      \/ pc' = "done" /\ returned'.k = "err"
  BY <1>a, FailureReturns DEF BeginCallFails
<1>1. CallsTypeOK' BY <1>0, <1>b DEF CallsInv, CallsTypeOK, Attempts
<1>2. RespOK' BY <1>0 DEF CallsInv, CallsTypeOK, RespOK, Threw
<1>3. ReturnedOK' BY <1>b DEF ReturnedOK, None
<1>4. \A n \in Attempts : AnswerOf(n)' BY <1>0, Zenon DEF CallsInv, AnswerOf, Says
<1>5. \A n \in Attempts : AttemptOK(n)' BY <1>0, <1>b DEF CallsInv, CallsTypeOK, AttemptOK, Attempts, NotTaken
<1> QED BY <1>1, <1>2, <1>3, <1>4, <1>5 DEF CallsInv, Attempts

\* A wait that ends with an error, whatever was read of the response: the call returns the
\* error, or is made again when the error says that it was not taken.
LEMMA WaitFailsKeeps ==
    ASSUME CallsInv, pc = "wait", NEW code, AttemptFails(attempt, code), RespOK',
           code \in {"busy", "declined"} => attempt \notin inbox /\ handled[attempt] \in NotTaken,
           resp' = [id \in Ids(m.result) |-> resp'[id]],
           UNCHANGED <<m, via, retryOn, skew, attempt, inbox, answer, handled>>
    PROVE  CallsInv'
<1> USE AttemptsAssumption
<1>0. /\ attempt' = attempt /\ inbox' = inbox
      /\ m' = m /\ via' = via /\ retryOn' = retryOn /\ skew' = skew
      /\ answer' = answer /\ handled' = handled
  OBVIOUS
<1>a. returned = None BY DEF CallsInv, ReturnedOK
<1>b. \/ pc' = "start" /\ attempt < MaxAttempts /\ returned' = None
      \/ pc' = "done" /\ returned'.k = "err"
  BY <1>a, FailureReturns
<1>c. pc' = "start" /\ retryOn \in {"Never", "NonIdempotent"} => code \in {"busy", "declined"}
  BY <1>a, FailureReturns
<1>1. CallsTypeOK' BY <1>0, <1>b DEF CallsInv, CallsTypeOK, Attempts
<1>3. ReturnedOK' BY <1>b DEF ReturnedOK, None
<1>4. \A n \in Attempts : AnswerOf(n)' BY <1>0, Zenon DEF CallsInv, AnswerOf, Says
<1>5. \A n \in Attempts : AttemptOK(n)'
  BY <1>0, <1>b, <1>c DEF CallsInv, CallsTypeOK, AttemptOK, Attempts, NotTaken
<1> QED BY <1>1, <1>3, <1>4, <1>5 DEF CallsInv, Attempts

\* An attempt that times out keeps the invariant.
LEMMA TimeoutKeeps == CallsInv /\ AttemptTimesOut => CallsInv'
<1> SUFFICES ASSUME CallsInv, AttemptTimesOut PROVE CallsInv' OBVIOUS
<1>1. /\ pc = "wait" /\ AttemptFails(attempt, "timeout") /\ resp' = resp
      /\ UNCHANGED <<m, via, retryOn, skew, attempt, inbox, answer, handled>>
  BY DEF AttemptTimesOut
<1>2. RespOK' BY <1>1 DEF CallsInv, RespOK, Threw
<1>3. resp' = [id \in Ids(m.result) |-> resp'[id]] BY <1>1 DEF CallsInv, CallsTypeOK
<1> QED BY <1>1, <1>2, <1>3, WaitFailsKeeps

\* An answer that was read is that of an attempt the server is done with.
LEMMA AnsweredIsHandled ==
    ASSUME CallsInv, pc = "wait", answer[attempt].k # "none"
    PROVE  attempt \in Attempts /\ attempt \notin inbox /\ AnswerOf(attempt) /\ answer[attempt] # None
<1> USE AttemptsAssumption
<1>1. attempt \in Attempts BY DEF CallsInv, CallsTypeOK, Attempts
<1>2. answer[attempt] # None BY DEF None
<1> QED BY <1>1, <1>2 DEF CallsInv, AttemptOK

\* Reading the fields of an answer puts an exception into the result struct only when the
\* handler of this attempt threw it.
LEMMA ReadsKeepResp ==
    ASSUME CallsInv, pc = "wait", answer[attempt].k = "res", resp' = ReadInto(answer[attempt].set),
           m' = m /\ attempt' = attempt /\ inbox' = inbox /\ handled' = handled
    PROVE  RespOK' /\ resp' = [id \in Ids(m.result) |-> resp'[id]]
<1> USE AttemptsAssumption
<1>1. DOMAIN resp = Ids(m.result) BY DEF CallsInv, CallsTypeOK
<1>2. resp' = [id \in Ids(m.result) |-> resp'[id]] BY <1>1 DEF ReadInto
<1>3. attempt \in 1..attempt /\ attempt \notin inbox /\ AnswerOf(attempt)
  BY AnsweredIsHandled DEF CallsInv, CallsTypeOK
<1>4. \A id \in Ids(m.result) : resp'[id] = resp[id] \/ (resp'[id] = attempt /\ id \in answer[attempt].set)
  BY <1>1 DEF ReadInto
<1>5. \A id \in answer[attempt].set \ {0} : Threw(attempt, id)
  <2>1. answer[attempt].k # "error" /\ answer[attempt] # None BY DEF None
  <2> QED BY <1>3, <2>1, Zenon DEF AnswerOf, Says, Threw
<1>6. \A id \in Ids(m.result) \ {0} : resp'[id] # 0 =>
        resp'[id] \in 1..attempt /\ resp'[id] \notin inbox /\ Threw(resp'[id], id)
  BY <1>3, <1>4, <1>5, Zenon DEF CallsInv, RespOK
<1>7. RespOK' BY <1>6, Zenon DEF RespOK, Threw
<1> QED BY <1>2, <1>7

\* An answer that breaks off keeps the invariant.
LEMMA BreakKeeps == CallsInv /\ ConnectionBreaks => CallsInv'
<1> SUFFICES ASSUME CallsInv, ConnectionBreaks PROVE CallsInv' OBVIOUS
<1>1. /\ pc = "wait" /\ AttemptFails(attempt, "network")
      /\ UNCHANGED <<m, via, retryOn, skew, attempt, inbox, answer, handled>>
      /\ resp' = resp \/ (answer[attempt].k = "res" /\ resp' = ReadInto(answer[attempt].set))
  BY DEF ConnectionBreaks
<1>2. RespOK' /\ resp' = [id \in Ids(m.result) |-> resp'[id]]
  <2>1. CASE resp' = resp BY <1>1, <2>1 DEF CallsInv, CallsTypeOK, RespOK, Threw
  <2>2. CASE answer[attempt].k = "res" /\ resp' = ReadInto(answer[attempt].set) BY <1>1, <2>2, ReadsKeepResp
  <2> QED BY <1>1, <2>1, <2>2
<1> QED BY <1>1, <1>2, WaitFailsKeeps

\* The first exception set in a result is one that is set.
LEMMA FirstException ==
    ASSUME NEW S, S \subseteq {0, 1, 2} \ {0}, S # {}
    PROVE  (CHOOSE id \in S : \A other \in S : id <= other) \in S
<1>1. \E id \in S : \A other \in S : id <= other
  <2>1. \A other \in S : other = 1 \/ other = 2 OBVIOUS
  <2>2. CASE 1 \in S
    <3>1. \A other \in S : 1 <= other BY <2>1
    <3> QED BY <2>2, <3>1
  <2>3. CASE 1 \notin S
    <3>1. \A other \in S : 2 <= other BY <2>1, <2>3
    <3>2. 2 \in S BY <2>1, <2>3, Zenon
    <3> QED BY <3>1, <3>2
  <2> QED BY <2>2, <2>3
<1> QED BY <1>1, Zenon

\* What the generated client makes of an answer with a result
LEMMA ResultSays ==
    ASSUME CallsInv, pc = "wait", answer[attempt].k = "res", resp' = ReadInto(answer[attempt].set),
           RespOK', m' = m /\ attempt' = attempt /\ inbox' = inbox /\ handled' = handled,
           returned' = Result(answer[attempt].success, resp')
    PROVE  /\ returned'.k = "ok" =>
                \/ handled[attempt].k = "okNil"
                \/ handled[attempt].k = "ok" /\ (0 \in Ids(m.result) => returned'.v = attempt)
           /\ returned'.k = "exc" => \E n \in 1..attempt : n \notin inbox /\ Threw(n, returned'.id)
<1> DEFINE a == answer[attempt]
           excs == {id \in Ids(m.result) \ {0} : resp'[id] # 0}
           first == CHOOSE id \in excs : \A other \in excs : id <= other
           ok == [k |-> "ok", v |-> IF 0 \in Ids(m.result) THEN resp'[0] ELSE 0]
<1> USE AttemptsAssumption
<1>1. DOMAIN resp = Ids(m.result) /\ DOMAIN resp' = Ids(m.result)
  BY DEF CallsInv, CallsTypeOK, ReadInto
<1>2. attempt # 0 /\ attempt \in Nat BY DEF CallsInv, CallsTypeOK
<1>3. \/ via = "tchannel" /\ a.success = TRUE /\ returned' = ok
      \/ excs # {} /\ returned' = [k |-> "exc", id |-> first]
      \/ returned' = [k |-> "err", code |-> "unknownResult"]
      \/ via # "tchannel" /\ excs = {} /\ returned' = ok
  <2>1. CASE via = "tchannel" /\ a.success = TRUE BY <1>1, <2>1 DEF Result
  <2>2. CASE ~(via = "tchannel" /\ a.success = TRUE) BY <1>1, <2>2, Zenon DEF Result
  <2> QED BY <2>1, <2>2, Zenon
<1>4. \/ handled[attempt].k = "ok" /\ a.set = {0}
      \/ handled[attempt].k = "okNil" /\ a.set = {}
      \/ \E e \in Exceptions(m.result) : a.set = {e} /\ (via = "tchannel" => a.success = FALSE)
  <2>1. a.k # "error" /\ a # None BY DEF None
  <2> QED BY <2>1, AnsweredIsHandled, Zenon DEF AnswerOf, Says
<1>5. 0 \in Ids(m.result) /\ a.set = {0} => resp'[0] = attempt BY <1>1 DEF ReadInto
<1>6. via # "tchannel" /\ excs = {} => \A e \in Exceptions(m.result) : a.set # {e}
  <2> SUFFICES ASSUME via # "tchannel", NEW e \in Exceptions(m.result), a.set = {e} PROVE excs # {}
    BY Zenon
  <2>1. e \in KnownExceptions BY DEF KnownExceptions, CallsInv, CallsTypeOK
  <2>2. e \in Ids(m.result) \ {0} BY DEF Exceptions
  <2>3. resp'[e] = attempt BY <1>1, <2>1, <2>2 DEF ReadInto
  <2> QED BY <1>2, <2>2, <2>3
<1>7. ASSUME returned' = ok, (via = "tchannel" /\ a.success = TRUE) \/ (via # "tchannel" /\ excs = {})
      PROVE  \/ handled[attempt].k = "okNil"
             \/ handled[attempt].k = "ok" /\ (0 \in Ids(m.result) => returned'.v = attempt)
  <2>1. 0 \in Ids(m.result) => returned'.v = resp'[0] BY <1>7
  <2>2. a.success = TRUE => a.success # FALSE BY Zenon
  <2> QED BY <1>4, <1>5, <1>6, <1>7, <2>1, <2>2, Zenon
<1>8. ASSUME excs # {}, returned' = [k |-> "exc", id |-> first]
      PROVE  \E n \in 1..attempt : n \notin inbox /\ Threw(n, returned'.id)
  <2>1. excs \subseteq {0, 1, 2} \ {0}
    <3>1. CallsTypeOK BY DEF CallsInv
    <3>2. Ids(m.result) \subseteq {0, 1, 2} BY <3>1, RoutedIsMethod, ResultIds
    <3> QED BY <3>2
  <2> HIDE DEF excs
  <2>2. first \in excs BY <1>8, <2>1, FirstException, Zenon
  <2>3. returned'.id = first BY <1>8
  <2> HIDE DEF first
  <2>4. first \in Ids(m.result) \ {0} /\ resp'[first] # 0 BY <2>2 DEF excs
  <2>5. resp'[first] \in 1..attempt /\ resp'[first] \notin inbox /\ Threw(resp'[first], first)
    BY <2>4, Zenon DEF RespOK, Threw
  <2> QED BY <2>3, <2>5, Zenon
<1>9. ok.k = "ok" /\ (returned' = [k |-> "exc", id |-> first] => returned'.k = "exc")
      /\ (returned' = [k |-> "err", code |-> "unknownResult"] => returned'.k = "err")
  OBVIOUS
<1> HIDE DEF ok, first, excs
<1>10. (returned' = ok => returned'.k = "ok") BY <1>9
<1> QED BY <1>3, <1>7, <1>8, <1>9, <1>10, Zenon

\* An answer that the client reads keeps the invariant.
LEMMA ReadsKeep == CallsInv /\ ClientReads => CallsInv'
<1> SUFFICES ASSUME CallsInv, ClientReads PROVE CallsInv' OBVIOUS
<1> USE AttemptsAssumption
<1>0. /\ pc = "wait" /\ answer[attempt].k # "none"
      /\ UNCHANGED <<m, via, retryOn, skew, attempt, inbox, answer, handled>>
  BY DEF ClientReads
<1>1. attempt \in Attempts /\ attempt \notin inbox /\ AnswerOf(attempt) /\ answer[attempt] # None
  BY <1>0, AnsweredIsHandled
<1>2. CASE answer[attempt].k = "error"
  <2>1. AttemptFails(attempt, answer[attempt].code) /\ resp' = resp BY <1>2 DEF ClientReads
  <2>2. RespOK' BY <1>0, <2>1 DEF CallsInv, RespOK, Threw
  <2>3. resp' = [id \in Ids(m.result) |-> resp'[id]] BY <2>1 DEF CallsInv, CallsTypeOK
  <2>4. answer[attempt].k # "res" BY <1>2
  <2>5. answer[attempt].code \in {"busy", "declined"} => handled[attempt] \in NotTaken
    BY <1>1, <2>4, Zenon DEF AnswerOf, Says
  <2> QED BY <1>0, <1>1, <2>1, <2>2, <2>3, <2>5, WaitFailsKeeps
<1>3. CASE answer[attempt].k # "error"
  <2>1. answer[attempt].k = "res" BY <1>1, <1>3, Zenon DEF AnswerOf, Says
  <2>2. /\ resp' = ReadInto(answer[attempt].set) /\ pc' = "done"
        /\ returned' = Result(answer[attempt].success, resp')
    BY <1>3, Zenon DEF ClientReads
  <2>3. RespOK' /\ resp' = [id \in Ids(m.result) |-> resp'[id]] BY <1>0, <2>1, <2>2, ReadsKeepResp
  <2>4. CallsTypeOK' BY <1>0, <2>2, <2>3 DEF CallsInv, CallsTypeOK, Attempts
  <2>5. /\ returned'.k = "ok" =>
                \/ handled[attempt].k = "okNil"
                \/ handled[attempt].k = "ok" /\ (0 \in Ids(m.result) => returned'.v = attempt)
        /\ returned'.k = "exc" => \E n \in 1..attempt : n \notin inbox /\ Threw(n, returned'.id)
    BY <1>0, <2>1, <2>2, <2>3, ResultSays
  <2>6. m' = m /\ attempt' = attempt /\ inbox' = inbox /\ handled' = handled BY <1>0
  <2>7. ReturnedOK' BY <1>1, <2>2, <2>5, <2>6, Zenon DEF ReturnedOK, Threw
  <2>8. \A n \in Attempts : AnswerOf(n)' BY <1>0 DEF CallsInv, AnswerOf, Says
  <2>9. \A n \in Attempts : AttemptOK(n)' BY <1>0, <2>2 DEF CallsInv, CallsTypeOK, AttemptOK, Attempts
  <2> QED BY <2>3, <2>4, <2>7, <2>8, <2>9 DEF CallsInv, Attempts
<1> QED BY <1>2, <1>3
-----------------------------------------------------------------------------
(* The server's steps *)

\* Attempt n is answered; the others are as they were.
LEMMA AnswerKeeps ==
    ASSUME CallsInv, NEW n \in inbox, NEW d, NEW a, Says(d, a),
           inbox' = inbox \ {n}, handled' = [handled EXCEPT ![n] = d], answer' = [answer EXCEPT ![n] = a],
           UNCHANGED <<m, via, retryOn, skew, pc, attempt, resp, returned>>
    PROVE  CallsInv'
<1> USE AttemptsAssumption
<1>0. /\ m' = m /\ via' = via /\ retryOn' = retryOn /\ skew' = skew /\ pc' = pc /\ attempt' = attempt
      /\ resp' = resp /\ returned' = returned
  OBVIOUS
<1>1. n \in Attempts /\ n \in 1..attempt /\ attempt \in 0..MaxAttempts BY DEF CallsInv, CallsTypeOK, Attempts
<1>2. handled'[n] = d /\ answer'[n] = a
  BY <1>1 DEF CallsInv, CallsTypeOK
<1>3. \A j \in Attempts \ {n} : handled'[j] = handled[j] /\ answer'[j] = answer[j]
  BY Zenon DEF CallsInv, CallsTypeOK
<1>4. \A j \in 1..attempt : j \in Attempts BY <1>1 DEF Attempts
<1>5. CallsTypeOK' BY <1>0, <1>1, Zenon DEF CallsInv, CallsTypeOK, Attempts
<1>6. RespOK'
  <2> SUFFICES ASSUME NEW id \in Ids(m.result) \ {0}, resp[id] # 0
               PROVE  resp[id] \in 1..attempt /\ resp[id] \notin inbox' /\ handled'[resp[id]] = [k |-> "exc", id |-> id]
    BY <1>0 DEF RespOK, Threw
  <2>1. resp[id] \in 1..attempt /\ resp[id] \notin inbox /\ Threw(resp[id], id) BY DEF CallsInv, RespOK
  <2> QED BY <1>3, <1>4, <2>1 DEF Threw
<1>7. ReturnedOK'
  <2>1. pc' # "done" => returned' = None BY <1>0 DEF CallsInv, ReturnedOK
  <2>2. ASSUME returned.k = "ok"
        PROVE  /\ attempt \notin inbox'
               /\ \/ handled'[attempt].k = "okNil"
                  \/ handled'[attempt].k = "ok" /\ (0 \in Ids(m.result) => returned.v = attempt)
    <3>1. /\ attempt \notin inbox
          /\ \/ handled[attempt].k = "okNil"
             \/ handled[attempt].k = "ok" /\ (0 \in Ids(m.result) => returned.v = attempt)
      BY <2>2 DEF CallsInv, ReturnedOK
    <3>2. attempt \in Attempts \ {n} BY <1>1, <3>1 DEF Attempts
    <3> QED BY <1>3, <3>1, <3>2
  <2>3. ASSUME returned.k = "exc" 
        PROVE  \E j \in 1..attempt : j \notin inbox' /\ handled'[j] = [k |-> "exc", id |-> returned.id]
    <3>1. PICK j \in 1..attempt : j \notin inbox /\ Threw(j, returned.id) BY <2>3 DEF CallsInv, ReturnedOK
    <3>2. j \in Attempts \ {n} BY <1>4, <3>1
    <3> QED BY <1>3, <3>1, <3>2 DEF Threw
  <2> QED BY <1>0, <2>1, <2>2, <2>3 DEF ReturnedOK, Threw
<1>8. \A j \in Attempts : AnswerOf(j)'
  <2>1. \A x, y : Says(x, y) => Says(x, y)' BY <1>0, Zenon DEF Says
  <2>2. \A j \in Attempts : Says(handled'[j], answer'[j]) BY <1>2, <1>3 DEF CallsInv, AnswerOf
  <2>3. \A j \in Attempts : AnswerOf(j)' BY <1>0, <2>2, Zenon DEF AnswerOf, Says
  <2> QED BY <2>3
<1>9. \A j \in Attempts : AttemptOK(j)'
  <2>1. AttemptOK(n)' BY <1>0, <1>1 DEF CallsInv, AttemptOK
  <2>2. \A j \in Attempts \ {n} : AttemptOK(j)' BY <1>0, <1>3 DEF CallsInv, AttemptOK
  <2> QED BY <2>1, <2>2
<1> QED BY <1>5, <1>6, <1>7, <1>8, <1>9 DEF CallsInv, Attempts

\* A handler that runs keeps the invariant.
LEMMA HandleKeeps == ASSUME NEW n \in Attempts, CallsInv, Handle(n) PROVE CallsInv'
<1>1. CallsTypeOK /\ n \in inbox BY DEF CallsInv, Handle
<1>2. handled[n] = None BY <1>1 DEF CallsInv, AttemptOK
<1>3. Routed = {m} BY <1>1, RoutedIsMethod
<1>4. inbox' = inbox \ {n} /\ UNCHANGED <<m, via, retryOn, skew, pc, attempt, resp, returned>> BY DEF Handle
<1>5. CASE skew = "args" /\ \E h \in Routed : Requires(h.args)
  <2> DEFINE a == [k |-> "error", code |-> "badRequest"]
  <2>1. answer' = [answer EXCEPT ![n] = a] /\ handled' = handled BY <1>5 DEF Handle
  <2>2. handled' = [handled EXCEPT ![n] = None] BY <1>2, <2>1 DEF CallsInv, CallsTypeOK
  <2>3. Says(None, a) BY <1>5 DEF Says
  <2> HIDE DEF a
  <2> QED BY <1>1, <1>4, <2>1, <2>2, <2>3, AnswerKeeps, Zenon
<1>6. CASE ~(skew = "args" /\ \E h \in Routed : Requires(h.args))
  <2>1. \E h \in Routed : \E d \in HandlerDoes(h) :
          /\ handled' = [handled EXCEPT ![n] = d]
          /\ answer' = [answer EXCEPT ![n] = IF via = "tchannel" THEN Answer(d) ELSE Reply(d)]
    BY <1>3, <1>6, Zenon DEF Handle
  <2>2. PICK d \in HandlerDoes(m) :
          /\ handled' = [handled EXCEPT ![n] = d]
          /\ answer' = [answer EXCEPT ![n] = IF via = "tchannel" THEN Answer(d) ELSE Reply(d)]
    BY <1>3, <2>1, Zenon
  <2>3. CASE via = "tchannel" BY <1>1, <1>4, <2>2, <2>3, AnswersSay, AnswerKeeps, Zenon
  <2>4. CASE via = "processor"
    <3>1. answer' = [answer EXCEPT ![n] = Reply(d)] BY <2>2, <2>4
    <3> QED BY <1>1, <1>4, <2>2, <2>4, <3>1, RepliesSay, AnswerKeeps, Zenon
  <2> QED BY <1>1, <2>3, <2>4 DEF CallsTypeOK
<1> QED BY <1>5, <1>6

\* A server that refuses the call keeps the invariant.
LEMMA RefuseKeeps == ASSUME NEW n \in Attempts, CallsInv, Refuse(n) PROVE CallsInv'
<1>1. n \in inbox /\ inbox' = inbox \ {n} /\ handled' = handled
      /\ UNCHANGED <<m, via, retryOn, skew, pc, attempt, resp, returned>>
  BY DEF Refuse
<1>2. PICK c \in {"busy", "declined"} : answer' = [answer EXCEPT ![n] = [k |-> "error", code |-> c]] BY Zenon DEF Refuse
<1>3. handled[n] = None BY <1>1 DEF CallsInv, AttemptOK
<1>4. handled' = [handled EXCEPT ![n] = None] BY <1>1, <1>3 DEF CallsInv, CallsTypeOK
<1> DEFINE a == [k |-> "error", code |-> c]
<1>5. Says(None, a) BY <1>2 DEF Says, NotTaken
<1> HIDE DEF a
<1>6. answer' = [answer EXCEPT ![n] = a] BY <1>2 DEF a
<1> QED BY <1>1, <1>4, <1>5, <1>6, AnswerKeeps, Zenon
-----------------------------------------------------------------------------
(* The invariant and what it shows *)

\* The invariant holds in the initial states.
LEMMA CallsInvInit == CallsInit => CallsInv
<1> SUFFICES ASSUME CallsInit PROVE CallsInv OBVIOUS
<1> USE AttemptsAssumption
<1>1. CallsTypeOK BY DEF CallsInit, CallsTypeOK, Attempts
<1>2. RespOK /\ ReturnedOK BY DEF CallsInit, RespOK, ReturnedOK, None
<1>3. \A n \in Attempts : AnswerOf(n) /\ AttemptOK(n) 
  BY DEF CallsInit, AnswerOf, Says, AttemptOK, Attempts, NotTaken
<1> QED BY <1>1, <1>2, <1>3 DEF CallsInv

\* Every step keeps the invariant.
LEMMA CallsInvNext == CallsInv /\ [CallsNext]_callVars => CallsInv'
<1> SUFFICES ASSUME CallsInv, [CallsNext]_callVars PROVE CallsInv' OBVIOUS
<1>1. CASE CallsNext
  BY <1>1, StartKeeps, ReadsKeep, TimeoutKeeps, BeginFailsKeeps, BreakKeeps, HandleKeeps, RefuseKeeps, Zenon
  DEF CallsNext, ClientStep, Attempts
<1>2. CASE UNCHANGED callVars
  <2>1. /\ m' = m /\ via' = via /\ retryOn' = retryOn /\ skew' = skew /\ pc' = pc /\ attempt' = attempt
        /\ resp' = resp /\ returned' = returned /\ inbox' = inbox /\ answer' = answer /\ handled' = handled
    BY <1>2 DEF callVars
  <2>2. CallsTypeOK' /\ RespOK' BY <2>1 DEF CallsInv, CallsTypeOK, RespOK, Threw
  <2>3. ReturnedOK' BY <2>1, Zenon DEF CallsInv, ReturnedOK, Threw
  <2>4. \A n \in Attempts : AnswerOf(n)' BY <2>1, Zenon DEF CallsInv, AnswerOf, Says
  <2>5. \A n \in Attempts : AttemptOK(n)' BY <2>1, Zenon DEF CallsInv, AttemptOK
  <2> QED BY <2>2, <2>3, <2>4, <2>5, Zenon DEF CallsInv, Attempts
<1> QED BY <1>1, <1>2

\* The invariant always holds.
LEMMA CallsInvariant == CallsSpec => []CallsInv
BY CallsInvInit, CallsInvNext, PTL DEF CallsSpec

\* For every method of the generated services, any option for retries and any number of
\* attempts: a client reports the success, the value or the exception that the handler gave,
\* and a call between two sides of the same IDL is never a bad request.
THEOREM HonestResults == CallsSpec => []ResultHonest
<1>1. CallsInv => ResultHonest
  <2> SUFFICES ASSUME CallsInv PROVE ResultHonest OBVIOUS
  <2>1. \A n \in Attempts : answer[n] = [k |-> "error", code |-> "badRequest"] => skew # "none"
    <3> SUFFICES ASSUME NEW n \in Attempts, answer[n] = [k |-> "error", code |-> "badRequest"] PROVE skew # "none"
      OBVIOUS
    <3>1. answer[n].k = "error" /\ answer[n].k # "res" /\ answer[n] # None /\ answer[n].code = "badRequest" BY DEF None
    <3> QED BY <3>1, Zenon DEF CallsInv, AnswerOf, Says
  <2> QED BY <2>1, Zenon DEF CallsInv, ReturnedOK, ResultHonest, Threw, Attempts
<1> QED BY <1>1, CallsInvariant, PTL

\* For any number of attempts: the handler takes a call at most once when only errors before
\* it was picked up are retried (RequestState, RetryNonIdempotent).
THEOREM HandledOnce == CallsSpec => []AtMostOnce
<1>1. CallsInv => AtMostOnce
  <2> SUFFICES ASSUME CallsInv, retryOn \in {"Never", "NonIdempotent"}
               PROVE  \A n \in Attempts : handled[n] \notin NotTaken => n = attempt
    BY Zenon DEF AtMostOnce, Attempts, NotTaken
  <2> USE AttemptsAssumption
  <2> QED BY DEF CallsInv, CallsTypeOK, AttemptOK, Attempts, NotTaken
<1> QED BY <1>1, CallsInvariant, PTL

-----------------------------------------------------------------------------
(* The Hyperbahn client *)

\* What the loop sleeps after n failures in a row, a multiple of advertiseRetryInterval
SleepAfter(n) == IF n = 0 THEN 0 ELSE 2^(IF n < maxAdvertiseFailures THEN n ELSE maxAdvertiseFailures - 1)

\* The type of each variable
AdTypeOK ==
    /\ client \in [pc : {"initial", "sleep", "send", "failed", "end", "exit"}, attempt : Nat, failures : Nat,
                   sleepFor : {SleepAfter(n) : n \in Nat}, fatal : BOOLEAN,
                   event : {"none", "Advertised", "Readvertised", "ErrorRetry", "ErrorNoRetry"}]
    /\ sends \in Seq(BOOLEAN) /\ closedAt \in Nat

\* n is the number of calls at the end of s that failed.
LastFailed(s, n) ==
    /\ n \in 0..Len(s) /\ \A i \in Len(s) - n + 1..Len(s) : ~s[i]
    /\ n < Len(s) => s[Len(s) - n]

\* The inductive invariant: the count of failures is the number of calls at the end that
\* failed, the sleep follows from it, and no call begins after Close.
AdInv ==
    /\ AdTypeOK
    /\ LastFailed(sends, client.failures)
    /\ client.pc \in {"initial", "failed"} => client.failures = 0
    /\ client.pc = "exit" => client.event = "ErrorNoRetry" /\ client.fatal /\ client.failures >= maxAdvertiseFailures
    /\ client.pc # "exit" => client.event # "ErrorNoRetry"
    /\ client.pc # "exit" /\ client.fatal => client.failures < maxAdvertiseFailures
    /\ client.pc \in {"initial", "sleep", "send"} => client.sleepFor = SleepAfter(client.failures)
    /\ closedAt > 0 => Len(sends) + (IF client.pc = "send" THEN 1 ELSE 0) < closedAt

\* The count of failures is the number the property names.
LEMMA CountsFailures ==
    ASSUME sends \in Seq(BOOLEAN), NEW n, LastFailed(sends, n)
    PROVE  FailedInRow = n
<1> DEFINE N == Len(sends)
<1>1. N \in Nat /\ n \in 0..N BY DEF LastFailed
<1>2. n \in InRow BY DEF InRow, LastFailed
<1>3. \A k \in InRow : k \in 0..N /\ \A i \in N - k + 1..N : ~sends[i] BY DEF InRow
<1>4. ASSUME NEW k \in InRow, k > n PROVE FALSE
  <2>1. k \in 0..N /\ \A i \in N - k + 1..N : ~sends[i] BY <1>3, Zenon
  <2>2. N - n \in N - k + 1..N /\ n < N BY <1>1, <1>4, <2>1
  <2>3. sends[N - n] BY <2>2, Zenon DEF LastFailed
  <2> QED BY <2>1, <2>2, <2>3, Zenon
<1>5. \A k \in InRow : k <= n BY <1>1, <1>3, <1>4
<1>6. ASSUME NEW j \in InRow, \A k \in InRow : k <= j PROVE j = n
  <2>1. j \in 0..N /\ j <= n /\ n <= j BY <1>2, <1>3, <1>5, <1>6, Zenon
  <2> QED BY <1>1, <2>1
<1> QED BY <1>2, <1>5, <1>6, Zenon DEF FailedInRow

\* What one more call does to the number of calls that failed in a row
LEMMA AppendFails ==
    ASSUME NEW s \in Seq(BOOLEAN), NEW n \in Nat, LastFailed(s, n)
    PROVE  LastFailed(Append(s, FALSE), n + 1) /\ LastFailed(Append(s, TRUE), 0)
<1>1. Len(s) \in Nat /\ n \in 0..Len(s) /\ (\A i \in Len(s) - n + 1..Len(s) : ~s[i]) /\ (n < Len(s) => s[Len(s) - n])
  BY DEF LastFailed
<1>2. ASSUME NEW b \in BOOLEAN
      PROVE  /\ Len(Append(s, b)) = Len(s) + 1 /\ Append(s, b)[Len(s) + 1] = b
             /\ \A i \in 1..Len(s) : Append(s, b)[i] = s[i]
  OBVIOUS
<1>3. LastFailed(Append(s, TRUE), 0)
  <2> DEFINE q == Append(s, TRUE)
  <2>1. Len(q) = Len(s) + 1 /\ q[Len(s) + 1] = TRUE BY <1>2, Zenon
  <2> HIDE DEF q
  <2>2. Len(q) - 0 = Len(s) + 1 /\ 0 \in 0..Len(q) /\ \A i : i \notin Len(q) - 0 + 1..Len(q) BY <1>1, <2>1
  <2>3. LastFailed(q, 0) BY <2>1, <2>2, Zenon DEF LastFailed
  <2> QED BY <2>3, Zenon DEF q
<1>4. LastFailed(Append(s, FALSE), n + 1)
  <2> DEFINE q == Append(s, FALSE)
  <2>1. Len(q) = Len(s) + 1 /\ q[Len(s) + 1] = FALSE /\ \A i \in 1..Len(s) : q[i] = s[i] BY <1>2, Zenon
  <2> HIDE DEF q
  <2>2. n + 1 \in 0..Len(q) /\ Len(q) - (n + 1) = Len(s) - n BY <1>1, <2>1
  <2>3. ASSUME NEW i \in Len(s) - n + 1..Len(s) + 1 PROVE ~q[i]
    <3>1. CASE i = Len(s) + 1 BY <2>1, <3>1, Zenon
    <3>2. CASE i # Len(s) + 1
      <4>1. i \in Len(s) - n + 1..Len(s) /\ i \in 1..Len(s) BY <1>1, <3>2
      <4> QED BY <1>1, <2>1, <4>1, Zenon
    <3> QED BY <3>1, <3>2, Zenon
  <2>4. ASSUME n + 1 < Len(q) PROVE q[Len(s) - n]
    <3>1. n < Len(s) /\ Len(s) - n \in 1..Len(s) BY <1>1, <2>1, <2>4
    <3> QED BY <1>1, <2>1, <3>1, Zenon
  <2>5. LastFailed(q, n + 1) BY <2>1, <2>2, <2>3, <2>4, Zenon DEF LastFailed
  <2> QED BY <2>5, Zenon DEF q
<1> QED BY <1>3, <1>4, Zenon

\* The interval doubles with each failure up to the cap.
LEMMA Doubles ==
    ASSUME NEW n \in Nat
    PROVE  /\ n + 1 < maxAdvertiseFailures => SleepAfter(n + 1) = 2^(n + 1)
           /\ n + 1 >= maxAdvertiseFailures => SleepAfter(n + 1) = SleepAfter(n)
<1> USE AdvertiseBounds
<1>1. n + 1 # 0 OBVIOUS
<1>2. n + 1 < maxAdvertiseFailures => SleepAfter(n + 1) = 2^(n + 1) BY <1>1, Zenon DEF SleepAfter
<1>3. ASSUME n + 1 >= maxAdvertiseFailures PROVE SleepAfter(n + 1) = SleepAfter(n)
  <2>1. n # 0 /\ ~(n + 1 < maxAdvertiseFailures) BY <1>3
  <2>2. CASE n < maxAdvertiseFailures
    <3>1. n = maxAdvertiseFailures - 1 BY <1>3, <2>2
    <3> QED BY <1>1, <2>1, <2>2, <3>1, Zenon DEF SleepAfter
  <2>3. CASE ~(n < maxAdvertiseFailures) BY <1>1, <2>1, <2>3, Zenon DEF SleepAfter
  <2> QED BY <2>2, <2>3, Zenon
<1> QED BY <1>2, <1>3, Zenon

\* The invariant holds in the initial state.
LEMMA AdInvInit == AdInit => AdInv
<1> SUFFICES ASSUME AdInit PROVE AdInv OBVIOUS
<1> USE AdvertiseBounds
<1>1. PICK fatal \in BOOLEAN :
        client = [pc |-> "initial", attempt |-> 0, failures |-> 0, sleepFor |-> 0, fatal |-> fatal, event |-> "none"]
  BY Zenon DEF AdInit
<1>2. sends = <<>> /\ closedAt = 0 BY Zenon DEF AdInit
<1>3. SleepAfter(0) = 0 BY Zenon DEF SleepAfter
<1>4. 0 \in {SleepAfter(n) : n \in Nat} BY <1>3
<1> HIDE DEF SleepAfter
<1>5. AdTypeOK BY <1>1, <1>2, <1>4 DEF AdTypeOK
<1>6. LastFailed(sends, client.failures) BY <1>1, <1>2 DEF LastFailed
<1> QED BY <1>1, <1>2, <1>3, <1>5, <1>6 DEF AdInv

\* Every step keeps the invariant.
LEMMA AdInvNext == AdInv /\ [AdNext]_adVars => AdInv'
<1> SUFFICES ASSUME AdInv, [AdNext]_adVars PROVE AdInv' OBVIOUS
<1> USE AdvertiseBounds
<1>1. AdTypeOK /\ LastFailed(sends, client.failures) /\ Len(sends) \in Nat BY DEF AdInv, AdTypeOK
<1>2. CASE UNCHANGED adVars BY <1>2, Zenon DEF AdInv, AdTypeOK, adVars
<1>3. ASSUME NEW result \in {"ok", "ephemeral", "error"}, initialAdvertise(result) PROVE AdInv'
  <2>1. client.pc = "initial" /\ UNCHANGED <<sends, closedAt>> BY <1>3, Zenon DEF initialAdvertise
  <2>2. CASE client' = [client EXCEPT !.pc = "sleep", !.event = "Advertised"] BY <2>1, <2>2, Zenon DEF AdInv, AdTypeOK
  <2>3. CASE client' = [client EXCEPT !.pc = "failed"] BY <2>1, <2>3 DEF AdInv, AdTypeOK
  <2>4. CASE client' = [client EXCEPT !.attempt = @ + 1] BY <2>1, <2>4 DEF AdInv, AdTypeOK
  <2> QED BY <1>3, <2>2, <2>3, <2>4, Zenon DEF initialAdvertise
<1>4. CASE WakeUp
  <2>1. client.pc = "sleep" /\ UNCHANGED <<sends, closedAt>> BY <1>4, Zenon DEF WakeUp
  <2>2. CASE closedAt > 0 /\ client' = [client EXCEPT !.pc = "end"] BY <2>1, <2>2 DEF AdInv, AdTypeOK
  <2>3. CASE ~(closedAt > 0) /\ client' = [client EXCEPT !.pc = "send"] BY <2>1, <2>3 DEF AdInv, AdTypeOK
  <2> QED BY <1>4, <2>2, <2>3, Zenon DEF WakeUp
<1>5. CASE ClientClose BY <1>1, <1>5 DEF ClientClose, AdInv, AdTypeOK
<1>6. ASSUME NEW ok \in BOOLEAN, advertiseLoop(ok) PROVE AdInv'
  <2>1. client.pc = "send" /\ sends' = Append(sends, ok) /\ closedAt' = closedAt BY <1>6, Zenon DEF advertiseLoop
  <2>2. sends' \in Seq(BOOLEAN) /\ Len(sends') = Len(sends) + 1 BY <1>1, <2>1 DEF AdTypeOK
  <2>3. closedAt > 0 => Len(sends') < closedAt BY <2>1, <2>2 DEF AdInv
  <2>4. client.failures \in Nat BY <1>1 DEF AdTypeOK
  <2>5. CASE ok
    <3>1. client' = Succeeded BY <1>6, <2>5, Zenon DEF advertiseLoop
    <3>2. LastFailed(sends', 0) BY <1>1, <2>1, <2>4, <2>5, AppendFails, Zenon DEF AdTypeOK
    <3>3. SleepAfter(0) = 0 BY Zenon DEF SleepAfter
    <3>4. 0 \in {SleepAfter(n) : n \in Nat} BY <3>3
    <3> HIDE DEF SleepAfter
    <3>5. AdTypeOK' BY <1>1, <2>1, <2>2, <3>1, <3>4, Zenon DEF AdTypeOK, Succeeded
    <3>6. client'.pc = "sleep" /\ client'.failures = 0 /\ client'.event = "Readvertised" /\ client'.sleepFor = 0
      BY <1>1, <3>1 DEF AdTypeOK, Succeeded
    <3>7. client'.failures < maxAdvertiseFailures BY <3>6
    <3>8. closedAt' > 0 => Len(sends') + 0 < closedAt' BY <2>1, <2>2, <2>3
    <3> QED BY <3>2, <3>3, <3>5, <3>6, <3>7, <3>8, Zenon DEF AdInv
  <2>6. CASE ~ok
    <3> DEFINE c == [client EXCEPT !.failures = @ + 1]
               n == client.failures
    <3>1. c.failures = n + 1 /\ c.fatal = client.fatal /\ c.sleepFor = client.sleepFor BY <1>1 DEF AdTypeOK
    <3>2. client' = IF n + 1 >= maxAdvertiseFailures /\ client.fatal
                    THEN [c EXCEPT !.pc = "exit", !.event = "ErrorNoRetry"]
                    ELSE [c EXCEPT !.pc = "sleep", !.event = "ErrorRetry", !.sleepFor = Backoff(c)]
      BY <1>6, <2>6, <3>1, Zenon DEF advertiseLoop
    <3>3. LastFailed(sends', n + 1) BY <1>1, <2>1, <2>4, <2>6, AppendFails, Zenon DEF AdTypeOK
    <3>4. client.sleepFor = SleepAfter(n) BY <2>1, Zenon DEF AdInv
    <3>5. Backoff(c) = SleepAfter(n + 1)
      <4>1. CASE n + 1 < maxAdvertiseFailures BY <2>4, <3>1, <4>1, Doubles, Zenon DEF Backoff
      <4>2. CASE ~(n + 1 < maxAdvertiseFailures)
        <5>1. n + 1 >= maxAdvertiseFailures BY <2>4, <4>2
        <5> QED BY <2>4, <3>1, <3>4, <4>2, <5>1, Doubles, Zenon DEF Backoff
      <4> QED BY <4>1, <4>2, Zenon
    <3>6. n + 1 \in Nat BY <2>4
    <3>7. SleepAfter(n + 1) \in {SleepAfter(k) : k \in Nat} BY <3>6
    <3>8. CASE n + 1 >= maxAdvertiseFailures /\ client.fatal
      <4>1. client' = [client EXCEPT !.failures = n + 1, !.pc = "exit", !.event = "ErrorNoRetry"] BY <1>1, <3>2, <3>8 DEF AdTypeOK
      <4>2. AdTypeOK' BY <1>1, <2>1, <2>2, <3>6, <4>1, Zenon DEF AdTypeOK
      <4>3. client'.pc = "exit" /\ client'.failures = n + 1 /\ client'.event = "ErrorNoRetry" /\ client'.fatal = client.fatal
        BY <1>1, <4>1 DEF AdTypeOK
      <4>4. closedAt' > 0 => Len(sends') + 0 < closedAt' BY <2>1, <2>2, <2>3
      <4> QED BY <3>3, <3>8, <4>2, <4>3, <4>4, Zenon DEF AdInv
    <3>9. CASE ~(n + 1 >= maxAdvertiseFailures /\ client.fatal)
      <4>1. client' = [client EXCEPT !.failures = n + 1, !.pc = "sleep", !.event = "ErrorRetry", !.sleepFor = SleepAfter(n + 1)]
        BY <1>1, <3>2, <3>5, <3>9, Zenon DEF AdTypeOK
      <4>2. AdTypeOK' BY <1>1, <2>1, <2>2, <3>6, <3>7, <4>1, Zenon DEF AdTypeOK
      <4>3. /\ client'.pc = "sleep" /\ client'.failures = n + 1 /\ client'.event = "ErrorRetry"
            /\ client'.fatal = client.fatal /\ client'.sleepFor = SleepAfter(n + 1)
        BY <1>1, <4>1 DEF AdTypeOK
      <4>4. client.fatal => n + 1 < maxAdvertiseFailures BY <2>4, <3>9
      <4>5. closedAt' > 0 => Len(sends') + 0 < closedAt' BY <2>1, <2>2, <2>3
      <4> QED BY <3>3, <4>2, <4>3, <4>4, <4>5, Zenon DEF AdInv
    <3> QED BY <3>8, <3>9, Zenon
  <2> QED BY <2>5, <2>6, Zenon
<1> QED BY <1>2, <1>3, <1>4, <1>5, <1>6, Zenon DEF AdNext

\* The Hyperbahn client keeps the promises of its options for any number of failures it
\* tolerates and any number of calls.
THEOREM AdvertisesPromised == AdSpec => []AdvertisesAsPromised
<1>1. AdInv => AdvertisesAsPromised
  <2> SUFFICES ASSUME AdInv PROVE AdvertisesAsPromised OBVIOUS
  <2>1. AdTypeOK /\ Len(sends) \in Nat BY DEF AdInv, AdTypeOK
  <2>2. FailedInRow = client.failures BY <2>1, CountsFailures, Zenon DEF AdInv, AdTypeOK
  <2>3. client.fatal \in BOOLEAN /\ client.failures \in Nat BY <2>1 DEF AdTypeOK
  <2>4. (client.event = "ErrorNoRetry") = (client.fatal /\ client.failures >= maxAdvertiseFailures)
    BY <2>3, AdvertiseBounds DEF AdInv
  <2>5. client.event = "ErrorNoRetry" => client.pc = "exit" BY Zenon DEF AdInv
  <2>6. client.pc = "sleep" => client.sleepFor = SleepAfter(client.failures) BY Zenon DEF AdInv
  <2>7. closedAt > 0 => Len(sends) < closedAt BY <2>1 DEF AdInv, AdTypeOK
  <2> QED BY <2>2, <2>4, <2>5, <2>6, <2>7, Zenon DEF AdvertisesAsPromised, SleepAfter
<1> QED BY <1>1, AdInvInit, AdInvNext, PTL DEF AdSpec
=============================================================================

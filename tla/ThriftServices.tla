--------------------------- MODULE ThriftServices ----------------------------
(***************************************************************************)
(* The structs, services, clients and processors of the generated code:     *)
(* meta (thrift/gen-go/meta, thrift/tchan-meta.go), hyperbahn, and the       *)
(* examples keyvalue and example.                                           *)
(***************************************************************************)
EXTENDS Integers, Sequences

\* A field is required, optional (written if set), default (always written), or a member of
\* a union.
Field(id, type, need) == [id |-> id, type |-> type, need |-> need, of |-> <<>>]
\* A field that holds a struct, or a list of structs, with the fields given by of
StructField(id, need, of) == [id |-> id, type |-> "struct", need |-> need, of |-> of]
ListField(id, need, of) == [id |-> id, type |-> "list", need |-> need, of |-> of]

(***************************************************************************)
(* Structs.  Field 0 of a result is the value the method returns, the other *)
(* fields are the exceptions it declares.                                   *)
(***************************************************************************)
\* thrift/gen-go/meta
HealthRequest == <<Field(1, "i32", "optional")>>
HealthStatus == <<Field(1, "bool", "required"), Field(2, "string", "optional"), Field(3, "i32", "optional")>>
ThriftIDLs == <<Field(1, "map", "required"), Field(2, "string", "required")>>
VersionInfo == <<Field(1, "string", "required"), Field(2, "string", "required"), Field(3, "string", "required")>>
MetaHealthArgs == <<StructField(1, "default", HealthRequest)>>
MetaHealthResult == <<StructField(0, "optional", HealthStatus)>>
MetaThriftIDLArgs == <<>>
MetaThriftIDLResult == <<StructField(0, "optional", ThriftIDLs)>>
MetaVersionInfoArgs == <<>>
MetaVersionInfoResult == <<StructField(0, "optional", VersionInfo)>>

\* hyperbahn/gen-go/hyperbahn
NoPeersAvailable == <<Field(1, "string", "required"), Field(2, "string", "required")>>
InvalidServiceName == <<Field(1, "string", "required"), Field(2, "string", "required")>>
DiscoveryQuery == <<Field(1, "string", "required")>>
IpAddress == <<Field(1, "i32", "union")>>
ServicePeer == <<StructField(1, "required", IpAddress), Field(2, "i32", "required")>>
DiscoveryResult == <<ListField(1, "required", ServicePeer)>>
HyperbahnDiscoverArgs == <<StructField(1, "required", DiscoveryQuery)>>
HyperbahnDiscoverResult == <<StructField(0, "optional", DiscoveryResult),
    StructField(1, "optional", NoPeersAvailable), StructField(2, "optional", InvalidServiceName)>>

\* examples/keyvalue/gen-go/keyvalue
KeyNotFound == <<Field(1, "string", "default")>>
InvalidKey == <<>>
NotAuthorized == <<>>
BaseServiceHealthCheckArgs == <<>>
BaseServiceHealthCheckResult == <<Field(0, "string", "optional")>>
KeyValueGetArgs == <<Field(1, "string", "default")>>
KeyValueGetResult == <<Field(0, "string", "optional"), StructField(1, "optional", KeyNotFound),
    StructField(2, "optional", InvalidKey)>>
KeyValueSetArgs == <<Field(1, "string", "default"), Field(2, "string", "default")>>
KeyValueSetResult == <<StructField(1, "optional", InvalidKey)>>
AdminClearAllArgs == <<>>
AdminClearAllResult == <<StructField(1, "optional", NotAuthorized)>>

\* examples/thrift/gen-go/example
HealthCheckRes == <<Field(1, "bool", "default"), Field(2, "string", "default")>>
BaseBaseCallArgs == <<>>
BaseBaseCallResult == <<>>
FirstEchoArgs == <<Field(1, "string", "default")>>
FirstEchoResult == <<Field(0, "string", "optional")>>
FirstHealthcheckArgs == <<>>
FirstHealthcheckResult == <<StructField(0, "optional", HealthCheckRes)>>
FirstAppErrorArgs == <<>>
FirstAppErrorResult == <<>>
SecondTestArgs == <<>>
SecondTestResult == <<>>

Structs ==
    [HealthRequest |-> HealthRequest, HealthStatus |-> HealthStatus, ThriftIDLs |-> ThriftIDLs,
     VersionInfo |-> VersionInfo, MetaHealthArgs |-> MetaHealthArgs, MetaHealthResult |-> MetaHealthResult,
     MetaThriftIDLResult |-> MetaThriftIDLResult, MetaVersionInfoResult |-> MetaVersionInfoResult,
     NoPeersAvailable |-> NoPeersAvailable, InvalidServiceName |-> InvalidServiceName,
     DiscoveryQuery |-> DiscoveryQuery, IpAddress |-> IpAddress, ServicePeer |-> ServicePeer,
     DiscoveryResult |-> DiscoveryResult, HyperbahnDiscoverArgs |-> HyperbahnDiscoverArgs,
     HyperbahnDiscoverResult |-> HyperbahnDiscoverResult, KeyNotFound |-> KeyNotFound,
     InvalidKey |-> InvalidKey, BaseServiceHealthCheckResult |-> BaseServiceHealthCheckResult,
     KeyValueGetArgs |-> KeyValueGetArgs, KeyValueGetResult |-> KeyValueGetResult,
     KeyValueSetArgs |-> KeyValueSetArgs, KeyValueSetResult |-> KeyValueSetResult,
     AdminClearAllResult |-> AdminClearAllResult, HealthCheckRes |-> HealthCheckRes,
     FirstEchoArgs |-> FirstEchoArgs, FirstEchoResult |-> FirstEchoResult,
     FirstHealthcheckResult |-> FirstHealthcheckResult]

(***************************************************************************)
(* Handlers.  A method of a server reads its arguments into args and        *)
(* answers with result.                                                     *)
(***************************************************************************)
Method(service, name, args, result) == [service |-> service, name |-> name, args |-> args, result |-> result]

handleHealth == Method("Meta", "health", MetaHealthArgs, MetaHealthResult)
handleThriftIDL == Method("Meta", "thriftIDL", MetaThriftIDLArgs, MetaThriftIDLResult)
handleVersionInfo == Method("Meta", "versionInfo", MetaVersionInfoArgs, MetaVersionInfoResult)
handleDiscover == Method("Hyperbahn", "discover", HyperbahnDiscoverArgs, HyperbahnDiscoverResult)
handleHealthCheck(service) == Method(service, "HealthCheck", BaseServiceHealthCheckArgs, BaseServiceHealthCheckResult)
handleGet == Method("KeyValue", "Get", KeyValueGetArgs, KeyValueGetResult)
handleSet == Method("KeyValue", "Set", KeyValueSetArgs, KeyValueSetResult)
handleClearAll == Method("Admin", "clearAll", AdminClearAllArgs, AdminClearAllResult)
handleBaseCall(service) == Method(service, "BaseCall", BaseBaseCallArgs, BaseBaseCallResult)
handleEcho == Method("First", "Echo", FirstEchoArgs, FirstEchoResult)
handleHealthcheck == Method("First", "Healthcheck", FirstHealthcheckArgs, FirstHealthcheckResult)
handleAppError == Method("First", "AppError", FirstAppErrorArgs, FirstAppErrorResult)
handleTest == Method("Second", "Test", SecondTestArgs, SecondTestResult)

\* Service, Methods and Handle of the servers; a server with a base service hands the
\* methods of it on.
tchanMetaServer == {handleHealth, handleThriftIDL, handleVersionInfo}
tchanHyperbahnServer == {handleDiscover}
tchanBaseServiceServer == {handleHealthCheck("baseService")}
tchanKeyValueServer == {handleGet, handleSet, handleHealthCheck("KeyValue")}
tchanAdminServer == {handleClearAll, handleHealthCheck("Admin")}
tchanBaseServer == {handleBaseCall("Base")}
tchanFirstServer == {handleAppError, handleEcho, handleHealthcheck, handleBaseCall("First")}
tchanSecondServer == {handleTest}

Servers == UNION {tchanMetaServer, tchanHyperbahnServer, tchanBaseServiceServer, tchanKeyValueServer,
                  tchanAdminServer, tchanBaseServer, tchanFirstServer, tchanSecondServer}

(***************************************************************************)
(* Clients over a TChannel: the method each call names, and the structs it  *)
(* writes and reads                                                         *)
(***************************************************************************)
tchanMetaClient == {Method("Meta", "health", MetaHealthArgs, MetaHealthResult),
                    Method("Meta", "thriftIDL", MetaThriftIDLArgs, MetaThriftIDLResult),
                    Method("Meta", "versionInfo", MetaVersionInfoArgs, MetaVersionInfoResult)}
tchanHyperbahnClient == {Method("Hyperbahn", "discover", HyperbahnDiscoverArgs, HyperbahnDiscoverResult)}
tchanBaseServiceClient(service) ==
    {Method(service, "HealthCheck", BaseServiceHealthCheckArgs, BaseServiceHealthCheckResult)}
tchanKeyValueClient == {Method("KeyValue", "Get", KeyValueGetArgs, KeyValueGetResult),
                        Method("KeyValue", "Set", KeyValueSetArgs, KeyValueSetResult)}
                       \cup tchanBaseServiceClient("KeyValue")
tchanAdminClient == {Method("Admin", "clearAll", AdminClearAllArgs, AdminClearAllResult)}
                    \cup tchanBaseServiceClient("Admin")
tchanBaseClient(service) == {Method(service, "BaseCall", BaseBaseCallArgs, BaseBaseCallResult)}
tchanFirstClient == {Method("First", "AppError", FirstAppErrorArgs, FirstAppErrorResult),
                     Method("First", "Echo", FirstEchoArgs, FirstEchoResult),
                     Method("First", "Healthcheck", FirstHealthcheckArgs, FirstHealthcheckResult)}
                    \cup tchanBaseClient("First")
tchanSecondClient == {Method("Second", "Test", SecondTestArgs, SecondTestResult)}

Clients == UNION {tchanMetaClient, tchanHyperbahnClient, tchanBaseServiceClient("baseService"),
                  tchanKeyValueClient, tchanAdminClient, tchanBaseClient("Base"), tchanFirstClient,
                  tchanSecondClient}

(***************************************************************************)
(* Processors and their clients over another Thrift transport               *)
(***************************************************************************)
metaProcessorHealth == Method("Meta", "health", MetaHealthArgs, MetaHealthResult)
metaProcessorThriftIDL == Method("Meta", "thriftIDL", MetaThriftIDLArgs, MetaThriftIDLResult)
metaProcessorVersionInfo == Method("Meta", "versionInfo", MetaVersionInfoArgs, MetaVersionInfoResult)
hyperbahnProcessorDiscover == Method("Hyperbahn", "discover", HyperbahnDiscoverArgs, HyperbahnDiscoverResult)
baseServiceProcessorHealthCheck(p) ==
    Method(p, "HealthCheck", BaseServiceHealthCheckArgs, BaseServiceHealthCheckResult)
keyValueProcessorGet == Method("KeyValue", "Get", KeyValueGetArgs, KeyValueGetResult)
keyValueProcessorSet == Method("KeyValue", "Set", KeyValueSetArgs, KeyValueSetResult)
adminProcessorClearAll == Method("Admin", "clearAll", AdminClearAllArgs, AdminClearAllResult)
baseProcessorBaseCall(p) == Method(p, "BaseCall", BaseBaseCallArgs, BaseBaseCallResult)
firstProcessorEcho == Method("First", "Echo", FirstEchoArgs, FirstEchoResult)
firstProcessorHealthcheck == Method("First", "Healthcheck", FirstHealthcheckArgs, FirstHealthcheckResult)
firstProcessorAppError == Method("First", "AppError", FirstAppErrorArgs, FirstAppErrorResult)
secondProcessorTest == Method("Second", "Test", SecondTestArgs, SecondTestResult)

\* The processor maps
MetaProcessor == {metaProcessorHealth, metaProcessorThriftIDL, metaProcessorVersionInfo}
HyperbahnProcessor == {hyperbahnProcessorDiscover}
BaseServiceProcessor(p) == {baseServiceProcessorHealthCheck(p)}
KeyValueProcessor == {keyValueProcessorGet, keyValueProcessorSet} \cup BaseServiceProcessor("KeyValue")
AdminProcessor == {adminProcessorClearAll} \cup BaseServiceProcessor("Admin")
BaseProcessor(p) == {baseProcessorBaseCall(p)}
FirstProcessor == {firstProcessorEcho, firstProcessorHealthcheck, firstProcessorAppError}
                  \cup BaseProcessor("First")
SecondProcessor == {secondProcessorTest}

Processors == UNION {MetaProcessor, HyperbahnProcessor, BaseServiceProcessor("baseService"),
                     KeyValueProcessor, AdminProcessor, BaseProcessor("Base"), FirstProcessor,
                     SecondProcessor}
=============================================================================

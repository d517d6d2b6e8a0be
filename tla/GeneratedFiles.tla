--------------------------- MODULE GeneratedFiles ---------------------------
(***************************************************************************)
(* The components this repository declares, and the four akasar_gen.go     *)
(* files generated for them: the declarations as the generator reads them, *)
(* the files as the tables their stubs consist of.                         *)
(***************************************************************************)
EXTENDS TypeSizes
LOCAL INSTANCE SequencesExt

Method(n, as, rs)  == [name |-> n, faults |-> {}, args |-> as, results |-> rs]
Component(n, ms, ls) == [intf |-> n, faults |-> {}, methods |-> ms, listeners |-> ls, routed |-> FALSE]
Package(n, ts, cs, marks) == [name |-> n, sound |-> TRUE, types |-> ts, comps |-> cs, noRetry |-> marks]
Message(n) == Pointer(Named(n))

(* internal/control: each method takes a message, and most return one.     *)
Exchange(m)   == Method(m, <<Message(m \o "Request")>>, <<Message(m \o "Reply")>>)
Notice(m, n)  == Method(m, <<Message(n)>>, <<>>)

AkasaletControl == Component("akasaletControl",
  <<Exchange("InitAkasalet"), Exchange("UpdateComponents"), Exchange("UpdateRoutingInfo"),
    Exchange("GetHealth"), Exchange("GetLoad"), Exchange("GetMetrics"), Exchange("GetProfile")>>, <<>>)
DeployerControl == Component("deployerControl",
  <<Notice("LogBatch", "LogEntryBatch"), Notice("HandlerTraceSpans", "TraceSpans"),
    Exchange("ActivateComponent"), Exchange("GetListenerAddress"), Exchange("ExportListener")>>, <<>>)
Root(listeners) == Component("Root", <<>>, listeners)

int64  == Basic("int64")
int32  == Basic("int32")
string == Basic("string")

BuyGoodsRequest == <<int64, int32, Basic("uint32"), Marker>>
UserInfo        == <<Marker, int64, string, int64, Pointer(Named("VipInfo"))>>
VipInfo         == <<Marker, Named("VipLevelType"), int64>>
Store == Component("Store", <<Method("BuyGoods", <<Named("BuyGoodsRequest")>>, <<>>)>>, <<>>)
User  == Component("User", <<Method("Login", <<string, string>>, <<Named("UserInfo")>>)>>, <<>>)
VIP   == Component("VIP", <<Method("GetVipInfo", <<int64>>, <<Message("VipInfo")>>)>>, <<>>)

Reverser == Component("Reverser", <<Method("Reverse", <<string>>, <<string>>)>>, <<>>)

(* internal/codegen/test, the package the generator's test runs on.        *)
arg1 == <<Marker, int64, string, Slice(int32), Pointer(Named("arg2"))>>
arg2 == <<Marker, Basic("int")>>
Err  == <<Marker, int32, string>>
TestReverser == Component("Reverser",
  <<Method("Reverse", <<string, Message("arg1"), Named("ID")>>, <<string, Named("ID"), Named("res1")>>),
    Method("ZNoRetryMethod", <<>>, <<>>)>>, <<>>)

Repository ==
  {<<Package("akasar", {}, <<AkasaletControl, DeployerControl>>, {})>>,
   <<Package("components", {"BuyGoodsRequest", "UserInfo", "VipInfo"}, <<Store, User, VIP>>, {}),
     Package("multiprocess", {}, <<Root(<<>>)>>, {})>>,
   <<Package("reverser", {}, <<Root(<<[tag |-> "reverser", names |-> <<"lis">>]>>), Reverser>>, {})>>,
   <<Package("test", {"arg1", "arg2", "res1", "Error"}, <<Root(<<>>), TestReverser>>,
             {<<"Reverser", "ZNoRetryMethod">>})>>}
-----------------------------------------------------------------------------
Registered(n, listeners) == [name |-> n, routed |-> FALSE, listeners |-> listeners, noRetry |-> <<>>]
Local(m, args, results)  == [name |-> m, args |-> args, results |-> results]
By(t)    == [by |-> IF t.k = "basic" THEN "codec" ELSE IF t.k = "pointer" THEN "func" ELSE "marshal", t |-> t]
Bys(ts)  == [i \in DOMAIN ts |-> By(ts[i])]
Sends(i, m, sized, as, rs) ==
  [name |-> m, index |-> i, sized |-> sized, sends |-> Bys(as), reads |-> Bys(rs), frees |-> TRUE]
Serves(m, as, sized, rs) ==
  [name |-> m, reads |-> Bys(as), sized |-> sized, writes |-> Bys(rs)]
(* The client stubs of the root package do not free their results.         *)
Keeps(i, m, message, rs) == [Sends(i, m, FALSE, <<Message(message)>>, rs) EXCEPT !.frees = FALSE]
SendsBoth(i, m)  == Keeps(i, m, m \o "Request", <<Message(m \o "Reply")>>)
ServesBoth(m)    == Serves(m, <<Message(m \o "Request")>>, FALSE, <<Message(m \o "Reply")>>)
Functions(names) == {<<"func", UniqueName(Message(n))>> : n \in names}

(* akasaletControl: what it is asked about itself, and what it is told.    *)
Stub(intf, rows) == [intf |-> intf, methods |-> rows]
LocalBoth(m)     == Local(m, 1, 1)
BothMessages(m)  == Functions({m \o "Request", m \o "Reply"})

QueriesLocal  == <<LocalBoth("GetHealth"), LocalBoth("GetLoad"), LocalBoth("GetMetrics"), LocalBoth("GetProfile")>>
OrdersLocal   == <<LocalBoth("InitAkasalet"), LocalBoth("UpdateComponents"), LocalBoth("UpdateRoutingInfo")>>
ProbesClient  == <<SendsBoth(0, "GetHealth"), SendsBoth(1, "GetLoad")>>
ReportsClient == <<SendsBoth(2, "GetMetrics"), SendsBoth(3, "GetProfile")>>
OrdersClient  == <<SendsBoth(4, "InitAkasalet"), SendsBoth(5, "UpdateComponents"), SendsBoth(6, "UpdateRoutingInfo")>>
QueriesServer == <<ServesBoth("GetHealth"), ServesBoth("GetLoad"), ServesBoth("GetMetrics"), ServesBoth("GetProfile")>>
OrdersServer  == <<ServesBoth("InitAkasalet"), ServesBoth("UpdateComponents"), ServesBoth("UpdateRoutingInfo")>>
QueriesMessages ==
  UNION {BothMessages("GetHealth"), BothMessages("GetLoad"), BothMessages("GetMetrics"), BothMessages("GetProfile")}
OrdersMessages ==
  UNION {BothMessages("InitAkasalet"), BothMessages("UpdateComponents"), BothMessages("UpdateRoutingInfo")}

AkasaletControlLocal  == Stub("akasaletControl", QueriesLocal \o OrdersLocal)
AkasaletControlClient == Stub("akasaletControl", ProbesClient \o ReportsClient \o OrdersClient)
AkasaletControlServer == Stub("akasaletControl", QueriesServer \o OrdersServer)

(* deployerControl: what an akasalet asks for, and what it reports.        *)
DeployerControlLocal == Stub("deployerControl",
  <<LocalBoth("ActivateComponent"), LocalBoth("ExportListener"), LocalBoth("GetListenerAddress"),
    Local("HandlerTraceSpans", 1, 0), Local("LogBatch", 1, 0)>>)
AsksClient == <<SendsBoth(0, "ActivateComponent"), SendsBoth(1, "ExportListener"), SendsBoth(2, "GetListenerAddress")>>
TellsClient ==
  <<Keeps(3, "HandlerTraceSpans", "TraceSpans", <<>>), Keeps(4, "LogBatch", "LogEntryBatch", <<>>)>>
DeployerControlClient == Stub("deployerControl", AsksClient \o TellsClient)
DeployerControlServer == Stub("deployerControl",
  <<ServesBoth("ActivateComponent"), ServesBoth("ExportListener"), ServesBoth("GetListenerAddress"),
    Serves("HandlerTraceSpans", <<Message("TraceSpans")>>, FALSE, <<>>),
    Serves("LogBatch", <<Message("LogEntryBatch")>>, FALSE, <<>>)>>)
DeployerControlMessages ==
  UNION {BothMessages("ActivateComponent"), BothMessages("ExportListener"), BothMessages("GetListenerAddress"),
         Functions({"TraceSpans", "LogEntryBatch"})}

ControlRegistrations == <<Registered("akasaletControl", <<>>), Registered("deployerControl", <<>>)>>

ComponentsRegistrations == <<Registered("Store", <<>>), Registered("User", <<>>), Registered("VIP", <<>>)>>
ComponentsLocal ==
  <<Stub("Store", <<Local("BuyGoods", 1, 0)>>),
    Stub("User",  <<Local("Login", 2, 1)>>),
    Stub("VIP",   <<LocalBoth("GetVipInfo")>>)>>
StoreClient == Stub("Store", <<Sends(0, "BuyGoods", TRUE, <<Named("BuyGoodsRequest")>>, <<>>)>>)
UserClient  == Stub("User",  <<Sends(0, "Login", TRUE, <<string, string>>, <<Named("UserInfo")>>)>>)
VIPClient   == Stub("VIP",   <<Sends(0, "GetVipInfo", TRUE, <<int64>>, <<Message("VipInfo")>>)>>)
ComponentsServer ==
  <<Stub("Store", <<Serves("BuyGoods", <<Named("BuyGoodsRequest")>>, FALSE, <<>>)>>),
    Stub("User",  <<Serves("Login", <<string, string>>, TRUE, <<Named("UserInfo")>>)>>),
    Stub("VIP",   <<Serves("GetVipInfo", <<int64>>, TRUE, <<Message("VipInfo")>>)>>)>>
Marshals(n, ts) == <<Named(n), Bys(ts), Bys(ts)>>
ComponentsMarshals ==
  {Marshals("BuyGoodsRequest", <<int64, int32, Basic("uint32")>>),
   Marshals("UserInfo", <<int64, string, int64, Message("VipInfo")>>),
   Marshals("VipInfo", <<int32, int64>>)}
ComponentsSizes ==
  {<<"size", UniqueName(Message("VipInfo"))>>} \cup
  {<<"size", UniqueName(Named(n))>> : n \in {"AutoMarshal", "BuyGoodsRequest", "UserInfo", "VipInfo"}}

ReverserRegistrations == <<Registered("Reverser", <<>>), Registered("Root", <<"reverser">>)>>
RootStub       == Stub("Root", <<>>)
ReverserLocal  == <<Stub("Reverser", <<LocalBoth("Reverse")>>), RootStub>>
ReverserClient == <<Stub("Reverser", <<Sends(0, "Reverse", TRUE, <<string>>, <<string>>)>>), RootStub>>
ReverserServer == <<Stub("Reverser", <<Serves("Reverse", <<string>>, TRUE, <<string>>)>>), RootStub>>

MultiprocessRegistrations == <<Registered("Root", <<>>)>>

GeneratedFile(registers, locals, clients, servers, marshals, defs) ==
  [registers |-> registers, locals |-> locals, clients |-> clients, servers |-> servers,
   marshals |-> marshals, registered |-> {},
   defs |-> defs \cup {<<"marshal", UniqueName(m[1])>> : m \in marshals}]

AkasarGen ==
  [akasar |-> GeneratedFile(ControlRegistrations, <<AkasaletControlLocal, DeployerControlLocal>>,
                <<AkasaletControlClient, DeployerControlClient>>, <<AkasaletControlServer, DeployerControlServer>>,
                {}, QueriesMessages \cup OrdersMessages \cup DeployerControlMessages),
   components |-> GeneratedFile(ComponentsRegistrations, ComponentsLocal, <<StoreClient, UserClient, VIPClient>>, ComponentsServer,
                    ComponentsMarshals, ComponentsSizes \cup Functions({"VipInfo"})),
   reverser |-> GeneratedFile(ReverserRegistrations, ReverserLocal, ReverserClient, ReverserServer, {}, {}),
   multiprocess |-> GeneratedFile(MultiprocessRegistrations, <<RootStub>>, <<RootStub>>, <<RootStub>>, {}, {})]
=============================================================================

----------------------------- MODULE MCGenerator ----------------------------
EXTENDS Generator, GeneratedFiles
LOCAL INSTANCE SequencesExt

int == Basic("int")

(* The messages of the control interfaces, the types the repository's      *)
(* components send, and types of every other kind.                         *)
MCMessages ==
  {"LogEntryBatch", "TraceSpans"} \cup
  UNION {{m \o "Request", m \o "Reply"} :
           m \in {"ActivateComponent", "ExportListener", "GetHealth", "GetListenerAddress", "GetLoad", "GetMetrics",
                  "GetProfile", "InitAkasalet", "UpdateComponents", "UpdateRoutingInfo"}}

MCType(p, under) == [pkg |-> p, under |-> under, proto |-> FALSE, error |-> FALSE]
MCMessage        == [pkg |-> "protos", under |-> Struct(<<>>), proto |-> TRUE, error |-> FALSE]

MCDeclared ==
  [n \in MCMessages |-> MCMessage] @@
  [AutoMarshal     |-> MCType("akasar", Struct(<<>>)),
   BuyGoodsRequest |-> MCType("components", Struct(BuyGoodsRequest)),
   UserInfo        |-> MCType("components", Struct(UserInfo)),
   VipInfo         |-> MCType("components", Struct(VipInfo)),
   VipLevelType    |-> MCType("components", int32),
   arg1  |-> MCType("test", Struct(arg1)),
   arg2  |-> MCType("test", Struct(arg2)),
   res1  |-> MCType("test", Struct(arg2)),
   Error |-> [MCType("test", Struct(Err)) EXCEPT !.error = TRUE],
   ID    |-> MCType("test", int64),
   Ints  |-> MCType("p", Slice(int)),
   Pt    |-> MCType("p", Struct(<<Marker, int, string>>)),
   Nest  |-> MCType("p", Struct(<<Marker, Named("Pt"), Slice(int), Pointer(Named("Ints"))>>)),
   Rec   |-> MCType("p", Struct(<<Marker, Pointer(Named("Rec"))>>)),
   Odd   |-> MCType("p", Struct(<<Marker, Named("Bare"), Func>>)),
   Bare  |-> MCType("p", Struct(<<int, Func>>)),
   Flat  |-> MCType("p", Struct(<<int>>)),
   Msg   |-> MCMessage,
   Q     |-> MCType("q", Struct(<<Marker, int>>)),
   Any   |-> MCType("p", Interface)]

MCDecl == MCDeclared

MCEmbedding == {"Pt", "Nest", "Rec", "Odd"}
MCKinds == {int, string, Basic("uintptr"), Func, Struct(<<int>>), Named("Ints"), Named("Pt"), Named("Nest"),
            Named("Rec"), Named("Odd"), Named("Bare"), Named("Flat"), Named("Msg"), Named("Q"), Named("Any")}
MCTypes == MCKinds \cup {Pointer(t) : t \in MCKinds} \cup {Slice(t) : t \in MCKinds}
             \cup {Array(int), MapOf(string, Named("Pt")), Slice(Slice(int)), Pointer(Slice(Named("Pt")))}
MCResults == {string, Pointer(Named("Pt")), Slice(Named("Pt"))}

(* The types that ts are made of.                                          *)
MCDeeper(ts) == UNION {{t} \cup PartsOf(t) : t \in ts}
RECURSIVE MCClosure(_)
MCClosure(ts) == IF MCDeeper(ts) = ts THEN ts ELSE MCClosure(MCDeeper(ts))

(* The constants are given values that have been worked out once.          *)
MCMade == MCClosure(MCTypes \cup MCResults \cup {Pointer(Named(n)) : n \in DOMAIN MCDecl})
MCAllTypes == MCMade

MCUses(t, types) == \A x \in MCClosure({t}) : x.k = "named" /\ x.name \in MCEmbedding => x.name \in types

MCPackage(types, t, r) ==
  Package("p", types, <<Component("C", <<Method("N", <<>>, <<>>), Method("M", <<t, string>>, <<r>>)>>, <<>>)>>,
          {<<"C", "N">>})
MCOther == Package("q", {"Q"}, <<>>, {})

MCChosen ==
  UNION {{<<MCPackage(types, t, r)>>, <<MCPackage(types, t, r), MCOther>>, <<MCOther, MCPackage(types, t, r)>>} :
           types \in {{"Pt"}, {"Pt", "Nest"}, {"Pt", "Rec"}, {"Pt", "Odd"}},
           t \in MCTypes, r \in MCResults}

(* The mistakes the generator reports, one at a time.                      *)
MCGood == MCPackage({"Pt"}, int, string)
MCFaulty ==
  {<<[MCGood EXCEPT !.sound = FALSE], MCOther>>,
   <<[MCGood EXCEPT !.noRetry = {<<"C", "O">>}], MCOther>>,
   <<[MCGood EXCEPT !.comps = @ \o @], MCOther>>,
   <<[MCGood EXCEPT !.comps[1].faults = {"refToRoot"}], MCOther>>,
   <<[MCGood EXCEPT !.comps[1].listeners = <<[tag |-> "a", names |-> <<"x", "y">>]>>], MCOther>>,
   <<[MCGood EXCEPT !.comps[1].listeners = <<[tag |-> "", names |-> <<"x", "y">>], [tag |-> "", names |-> <<>>]>>], MCOther>>,
   <<Package("p", {}, <<>>, {}), MCOther>>}
  \cup {<<[MCGood EXCEPT !.comps[1].methods[2].faults = {f}], MCOther>> : f \in {"unexported", "noContext", "noError"}}

MCPrograms ==
  Repository \cup MCFaulty \cup
  {p \in MCChosen : \A i \in DOMAIN p : p[i].name = "p" =>
      \A t \in ToSet(p[i].comps[1].methods[2].args) : MCUses(t, p[i].types)}

MCAlphabet ==
  <<"ActivateComponent", "AkasarMarshal", "BuyGoods", "BuyGoodsRequest", "C", "Error", "ExportListener", "GetHealth",
    "GetListenerAddress", "GetLoad", "GetMetrics", "GetProfile", "GetVipInfo", "HandlerTraceSpans", "InitAkasalet",
    "LogBatch", "Login", "M", "N", "Nest", "Odd", "Pt", "Q", "Rec", "Reverse", "Reverser", "Root", "Store",
    "UpdateComponents", "UpdateRoutingInfo", "User", "UserInfo", "VIP", "VipInfo", "ZNoRetryMethod",
    "akasaletControl", "arg1", "arg2", "deployerControl", "res1">>
=============================================================================

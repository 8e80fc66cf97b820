---------------------------- MODULE MCShimGenerator ----------------------------
(* ShimGenerator with one good build and every departure from it: each field   *)
(* of the configuration at and past its bounds, product versions of up to five  *)
(* characters, each member of the contracts missing or changed, and templates   *)
(* that another build of Shim.cs could leave.                                   *)
EXTENDS ShimGenerator, TLC

(* A filler of n units is the atom that starts with an x. *)
Fillers == "x2043" :> 2043 @@ "x2044" :> 2044 @@ "x2045" :> 2045 @@ "x2048" :> 2048
           @@ "x2049" :> 2049 @@ "x13000" :> 13000
Wide == Fillers @@ ".dll" :> 4 @@ ".DLL" :> 4 @@ "Example" :> 7 @@ "native" :> 6
UnitsOf(atom) == IF atom \in DOMAIN Wide THEN Wide[atom] ELSE 1

Digest(key) == [i \in 1..20 |-> <<key, i>>]

BaseConfig ==
  [assembly |-> <<"Example">>, native |-> <<"native", ".dll">>, tab |-> <<"Tab">>,
   version |-> <<2, 3, 4, 5>>, file |-> <<65535, 0, 10, 9>>, product |-> <<"1">>,
   description |-> <<"d">>, productName |-> <<"p">>, company |-> <<"c">>,
   copyright |-> <<"l">>, comments |-> <<>>]

(* The configuration of examples/ffxiv-plugin/build.rs. *)
ExampleConfig ==
  [BaseConfig EXCEPT
     !.assembly = <<"FfxivActNativeExample.ACT">>, !.native = <<"ffxiv_plugin", ".dll">>,
     !.version = <<1, 0, 0, 0>>, !.file = <<1, 0, 0, 0>>, !.product = <<"1", ".", "0", ".", "0">>,
     !.comments = <<"Generated by ffxiv-act-native">>]

MaxConfig(name) ==
  [BaseConfig EXCEPT !.assembly = name, !.product = <<"x2048">>, !.description = <<"x2048">>,
     !.productName = <<"x2048">>, !.company = <<"x2048">>, !.copyright = <<"x2048">>,
     !.comments = <<"x2048">>]

ProductVersions ==
  BoundedSeq({"0", "9", ".", "b"}, 5)
  \cup {<<"6", "5", "5", "3", c>> : c \in {"5", "6"}}
  \cup {<<"1", ".", "2", ".", "3", "-", "b", "4", ".", "7">>,
        <<"1", ".", "2", ".", "3", ".", "4", ".", "9", "9", "9", "9", "9">>,
        <<"1", ".", "0", "0", "0", "6", "5", "5", "3", "6">>}

Configs ==
  {BaseConfig, ExampleConfig}
  \cup {[BaseConfig EXCEPT !.product = v] : v \in ProductVersions}
  \cup {[BaseConfig EXCEPT !.assembly = n] :
          n \in {<<>>, <<"a", "/">>, <<"\\">>, <<"NUL">>, <<"x2044">>, <<"x2045">>}}
  \cup {[BaseConfig EXCEPT !.native = n] :
          n \in {<<>>, <<"native">>, <<"dir", "/", ".dll">>, <<"dir", "\\", ".dll">>,
                 <<"native", ".DLL">>, <<".dll", "/">>}}
  \cup {[BaseConfig EXCEPT !.tab = <<>>], [BaseConfig EXCEPT !.comments = <<"NUL">>],
        [BaseConfig EXCEPT !.company = <<"x2049">>]}
  \cup {MaxConfig(n) : n \in {<<"x2044">>, <<"x2045">>, <<"x13000">>}}

Method(type, name, arity, void) == [type |-> type, name |-> name, arity |-> arity, void |-> void]

(* Advanced Combat Tracker.exe with a token, and the SDK with a public key. *)
GoodAct ==
  [parses |-> TRUE, types |-> {"IActPluginV1"}, events |-> <<>>,
   identity |-> [name |-> ACT_NAME, version |-> <<1, 2, 3, 4>>, culture |-> <<>>,
                 strong |-> {[kind |-> "Token", value |-> <<"t">>]}],
   methods |-> {Method("IActPluginV1", "InitPlugin", 2, TRUE),
                Method("IActPluginV1", "DeInitPlugin", 0, TRUE)}]

GoodCommon ==
  [parses |-> TRUE,
   types |-> {"IDataSubscription", "IDataRepository"} \cup ToSet(ModelTypes),
   events |-> [e \in ToSet(COMMON_EVENTS) |-> e],
   identity |-> [name |-> COMMON_NAME, version |-> <<3, 1, 2, 4>>, culture |-> <<"de">>,
                 strong |-> {[kind |-> "PubKey", value |-> "k"]}],
   methods |->
     {Method(e, "Invoke", HandlerArities[e], TRUE) : e \in ToSet(COMMON_EVENTS)}
     \cup {Method(c.type, c.name, c.arity, FALSE) : c \in RepositoryCalls}]

(* A method missing, with one argument more, or overloaded; one that returns. *)
Departures(a) ==
  {[a EXCEPT !.parses = FALSE], [a EXCEPT !.identity = NoManifest],
   [a EXCEPT !.identity.strong = {}]}
  \cup {[a EXCEPT !.types = @ \ {t}] : t \in a.types}
  \cup {[a EXCEPT !.methods = @ \ {m}] : m \in a.methods}
  \cup {[a EXCEPT !.methods = (@ \ {m}) \cup {[m EXCEPT !.arity = @ + 1]}] : m \in a.methods}
  \cup {[a EXCEPT !.methods = @ \cup {[m EXCEPT !.arity = @ + 1]}] : m \in a.methods}
  \cup {[a EXCEPT !.methods = (@ \ {m}) \cup {[m EXCEPT !.void = ~@]}] : m \in a.methods}
  \cup {[a EXCEPT !.events = [@ EXCEPT ![e] = Dangling]] : e \in DOMAIN a.events}
  \cup {[a EXCEPT !.events = Restrict(@, DOMAIN @ \ {e})] : e \in DOMAIN a.events}

Templates ==
  {CheckedIn, [CheckedIn EXCEPT !.managed = FALSE], [CheckedIn EXCEPT !.version.strings = <<>>],
   [CheckedIn EXCEPT !.slot.found = FALSE], [CheckedIn EXCEPT !.slot.capacity = 400],
   [CheckedIn EXCEPT !.slot.size = 100000], [CheckedIn EXCEPT !.assembly = <<>>],
   [CheckedIn EXCEPT !.module = <<>>], [CheckedIn EXCEPT !.refs = SubSeq(@, 1, 1)],
   [CheckedIn EXCEPT !.refs = SubSeq(@, 1, 2)], [CheckedIn EXCEPT !.moduleRefs = SubSeq(@, 1, 1)],
   [CheckedIn EXCEPT !.userStrings = SubSeq(@, 1, 1)],
   [CheckedIn EXCEPT !.userStrings = SubSeq(@, 2, 3)]}
  \cup {[CheckedIn EXCEPT !.attributes = Restrict(@, DOMAIN @ \ {a})] :
          a \in DOMAIN CheckedIn.attributes}

Build(config, act, common, template, host) ==
  [outDir |-> TRUE, config |-> config, act |-> act, common |-> common,
   template |-> template, host |-> host]

Builds ==
  {[Build(BaseConfig, GoodAct, GoodCommon, CheckedIn, "unix") EXCEPT !.outDir = FALSE]}
  \cup {Build(c, GoodAct, GoodCommon, CheckedIn, h) : c \in Configs, h \in {"windows", "unix"}}
  \cup {Build(BaseConfig, a, GoodCommon, CheckedIn, "windows") : a \in Departures(GoodAct)}
  \cup {Build(BaseConfig, GoodAct, c, CheckedIn, "windows") : c \in Departures(GoodCommon)}
  \cup {Build(BaseConfig, GoodAct, GoodCommon, t, "windows") : t \in Templates}
===============================================================================

--------------------------- MODULE ShimGeneratorProofs --------------------------
(* Proofs about ShimGenerator: what a build has established at each of its stages, that the
   stubs bind, that an accepted configuration fits the resource, that a shim is named once and
   that the product's version is read as it is written. StageInv is the inductive invariant;
   what the operators on texts compute, character by character, comes from FoldLemmas. *)
EXTENDS ShimGenerator, FiniteSetTheorems, SequenceTheorems, TLAPS

(* The width of a text is a fold that adds the units of its atoms. *)
Plus(n, atom) == n + Units(atom)
W == INSTANCE FoldLemmas WITH Op <- Plus

(* A sequence of checks passes exactly when each of them does. *)
LEMMA FirstOfSpec ==
  ASSUME NEW S, NEW results \in Seq(S)
  PROVE  /\ FirstOf(results) = None => \A i \in DOMAIN results : results[i] = None
         /\ FirstOf(results) # None =>
              \E i \in DOMAIN results : /\ results[i] # None /\ FirstOf(results) = results[i]
                                        /\ \A j \in 1..(i - 1) : results[j] = None
<1> DEFINE I == {i \in 1..Len(results) : results[i] # None}
<1>1. FirstOf(results) = IF I # {} THEN (IF Min(I) = 0 THEN None ELSE results[Min(I)]) ELSE None
  BY DEF FirstOf, SelectInSeq
<1>2. DOMAIN results = 1..Len(results) /\ Len(results) \in Nat
  OBVIOUS
<1>3. CASE I = {}
  BY <1>1, <1>2, <1>3
<1>4. CASE I # {}
  <2>1. PICK m \in I : \A y \in I : m <= y
    <3>1. I \subseteq Nat
      BY <1>2
    <3> HIDE DEF I
    <3> QED
      BY <1>4, <3>1, W!Least
  <2>2. Min(I) = m
    <3>1. \A x \in I : (\A y \in I : x <= y) => x = m
      BY <2>1, <1>2
    <3> QED
      BY <2>1, <3>1 DEF Min
  <2>3. FirstOf(results) = results[m] /\ m \in 1..Len(results) /\ results[m] # None
    BY <1>1, <1>4, <2>1, <2>2
  <2>4. \A j \in 1..(m - 1) : results[j] = None
    BY <2>1, <1>2
  <2> QED
    BY <2>3, <2>4, <1>2
<1> QED
  BY <1>3, <1>4

(* Of two checks the second one reports only where the first one passes. *)
LEMMA FirstOfPair ==
  ASSUME NEW a, NEW b
  PROVE  FirstOf(<<a, b>>) = IF a # None THEN a ELSE b
<1>1. PICK r : r = <<a, b>>
  OBVIOUS
<1>2. r \in Seq({a, b}) /\ DOMAIN r = 1..2 /\ r[1] = a /\ r[2] = b
  BY <1>1
<1>3. FirstOf(r) = None => a = None /\ b = None
  BY <1>2, FirstOfSpec
<1>4. FirstOf(r) # None =>
        \E i \in 1..2 : r[i] # None /\ FirstOf(r) = r[i] /\ \A j \in 1..(i - 1) : r[j] = None
  BY <1>2, FirstOfSpec
<1> QED
  BY <1>1, <1>2, <1>3, <1>4

-------------------------------------------------------------------------------
(* The contracts.                                                           *)

(* The names validate_contracts asks for, and the faults it answers with. *)
Members == ToSet(COMMON_EVENTS) \cup ToSet(REPOSITORY_METHODS) \cup ToSet(ModelTypes)
           \cup {"", "IActPluginV1", "InitPlugin", "DeInitPlugin", "IDataSubscription",
                 "IDataRepository", "Invoke"}
ContractFaults ==
  {"none", "MissingType", "MissingMember", "IncompatibleSignature"} \X Members

(* A missing type is reported under its name. *)
LEMMA RequireTypeFault ==
  ASSUME NEW assembly, NEW name \in Members
  PROVE  RequireType(assembly, name) \in ContractFaults
BY DEF RequireType, Check, ContractFaults, Members, None, GenerateError

(* Some overload of the method has that many parameters. *)
Takes(assembly, type, name, n) == \E m \in MethodsOf(assembly, type, name) : m.arity = n

(* The two forms in which the contracts ask for a method. *)
RequireVoid(assembly, type, name, arity) == RequireMethod(assembly, type, name, arity, TRUE)
RequireAny(assembly, type, name, arity)  == RequireMethod(assembly, type, name, arity, FALSE)

(* A method that passes is there, with the arity it was asked for. *)
LEMMA RequireVoidFault ==
  ASSUME NEW assembly, NEW type, NEW name \in Members, NEW arity
  PROVE  /\ RequireVoid(assembly, type, name, arity) \in ContractFaults
         /\ RequireVoid(assembly, type, name, arity) = None =>
              Takes(assembly, type, name, arity)
<1> DEFINE first == Check(MethodsOf(assembly, type, name) # {}, GenerateError("MissingMember", name))
           second == Check(\E m \in MethodsOf(assembly, type, name) :
                             m.arity = arity /\ (TRUE => m.void),
                           GenerateError("IncompatibleSignature", name))
<1>1. first \in ContractFaults /\ second \in ContractFaults
  BY DEF Check, ContractFaults, Members, None, GenerateError
<1>2. second = None => Takes(assembly, type, name, arity)
  BY DEF Takes, Check, None, GenerateError
<1>3. RequireVoid(assembly, type, name, arity) = FirstOf(<<first, second>>)
  BY DEF RequireVoid, RequireMethod
<1>4. None \in ContractFaults
  BY DEF None, GenerateError, ContractFaults, Members
<1> HIDE DEF first, second
<1> QED
  BY <1>1, <1>2, <1>3, <1>4, FirstOfPair

(* The same for the methods whose return type is left open. *)
LEMMA RequireAnyFault ==
  ASSUME NEW assembly, NEW type, NEW name \in Members, NEW arity
  PROVE  /\ RequireAny(assembly, type, name, arity) \in ContractFaults
         /\ RequireAny(assembly, type, name, arity) = None =>
              Takes(assembly, type, name, arity)
<1> DEFINE first == Check(MethodsOf(assembly, type, name) # {}, GenerateError("MissingMember", name))
           second == Check(\E m \in MethodsOf(assembly, type, name) :
                             m.arity = arity /\ (FALSE => m.void),
                           GenerateError("IncompatibleSignature", name))
<1>1. first \in ContractFaults /\ second \in ContractFaults
  BY DEF Check, ContractFaults, Members, None, GenerateError
<1>2. second = None => Takes(assembly, type, name, arity)
  BY DEF Takes, Check, None, GenerateError
<1>3. RequireAny(assembly, type, name, arity) = FirstOf(<<first, second>>)
  BY DEF RequireAny, RequireMethod
<1>4. None \in ContractFaults
  BY DEF None, GenerateError, ContractFaults, Members
<1> HIDE DEF first, second
<1> QED
  BY <1>1, <1>2, <1>3, <1>4, FirstOfPair

(* The events a stub handles. *)
Events == {"NetworkReceived", "NetworkSent", "CombatantAdded", "CombatantRemoved",
           "PrimaryPlayerChanged", "ZoneChanged", "PlayerStatsChanged", "PartyListChanged",
           "LogLine", "ParsedLogLine", "ProcessChanged"}

(* Each of them is checked, for the arity its handler has. *)
LEMMA EventsListed ==
  /\ DOMAIN HandlerArities = Events
  /\ \A event \in Events : \E i \in DOMAIN COMMON_EVENTS : COMMON_EVENTS[i] = event
  /\ \A event \in Events : HandlerArities[event] = EventArity(event)
<1>1. DOMAIN HandlerArities = Events
  BY DEF HandlerArities, Events
<1>2. ASSUME NEW event \in Events
      PROVE  \E i \in DOMAIN COMMON_EVENTS : COMMON_EVENTS[i] = event
  <2>1. DOMAIN COMMON_EVENTS = 1..11
    BY DEF COMMON_EVENTS
  <2>2. \E i \in 1..11 : COMMON_EVENTS[i] = event
    BY DEF COMMON_EVENTS, Events
  <2> QED
    BY <2>1, <2>2
<1>3. ASSUME NEW event \in Events
      PROVE  HandlerArities[event] = EventArity(event)
  BY DEF HandlerArities, EventArity, Events
<1> QED
  BY <1>1, <1>2, <1>3

(* An event that passes has a delegate that takes the arguments of its handler. *)
LEMMA RequireEventFault ==
  ASSUME NEW common, NEW event \in Members
  PROVE  /\ RequireEvent(common, event) \in ContractFaults
         /\ RequireEvent(common, event) = None =>
              /\ event \in DOMAIN common.events
              /\ Takes(common, common.events[event], "Invoke", EventArity(event))
<1> DEFINE missing == GenerateError("MissingMember", event)
           dangling == GenerateError("IncompatibleSignature", event)
           method == RequireVoid(common, common.events[event], "Invoke", EventArity(event))
<1>1. missing \in ContractFaults /\ dangling \in ContractFaults
  BY DEF ContractFaults, GenerateError
<1>2. missing # None /\ dangling # None
  BY DEF None, GenerateError
<1>3. "Invoke" \in Members
  BY DEF Members
<1>4. /\ method \in ContractFaults
      /\ method = None => Takes(common, common.events[event], "Invoke", EventArity(event))
  BY <1>3, RequireVoidFault
<1>5. RequireEvent(common, event) =
        IF event \notin DOMAIN common.events THEN missing
        ELSE IF common.events[event] = Dangling THEN dangling ELSE method
  BY DEF RequireEvent, RequireVoid
<1> HIDE DEF missing, dangling, method
<1> QED
  BY <1>1, <1>2, <1>4, <1>5

(* A sequence with one more element. *)
LEMMA OneMore ==
  ASSUME NEW S, NEW s \in Seq(S), NEW x \in S
  PROVE  /\ s \o <<x>> \in Seq(S)
         /\ DOMAIN (s \o <<x>>) = 1..(Len(s) + 1)
         /\ \A i \in 1..Len(s) : (s \o <<x>>)[i] = s[i]
         /\ (s \o <<x>>)[Len(s) + 1] = x
<1>1. s \o <<x>> = Append(s, x)
  OBVIOUS
<1>2. /\ Append(s, x) \in Seq(S)
      /\ DOMAIN Append(s, x) = 1..(Len(s) + 1)
      /\ \A i \in 1..Len(s) : Append(s, x)[i] = s[i]
      /\ Append(s, x)[Len(s) + 1] = x
  OBVIOUS
<1> QED
  BY <1>1, <1>2

(* One list of checks after another passes when both do. *)
LEMMA ConcatPasses ==
  ASSUME NEW S, NEW first \in Seq(S), NEW second \in Seq(S),
         \A i \in DOMAIN (first \o second) : (first \o second)[i] = None
  PROVE  /\ \A i \in DOMAIN first : first[i] = None
         /\ \A i \in DOMAIN second : second[i] = None
<1>1. ASSUME NEW i \in DOMAIN first PROVE first[i] = None
  <2>1. i \in DOMAIN (first \o second) /\ (first \o second)[i] = first[i]
    OBVIOUS
  <2> QED
    BY <2>1
<1>2. ASSUME NEW i \in DOMAIN second PROVE second[i] = None
  <2>1. /\ Len(first) + i \in DOMAIN (first \o second)
        /\ (first \o second)[Len(first) + i] = second[i]
    OBVIOUS
  <2> QED
    BY <2>1
<1> QED
  BY <1>1, <1>2

(* Contracts without a fault have passed every check, of the events and of the methods. *)
LEMMA ContractsChecked ==
  ASSUME NEW act, NEW common
  PROVE  /\ ContractFault(act, common) \in ContractFaults
         /\ ContractFault(act, common) = None =>
              /\ \A i \in DOMAIN COMMON_EVENTS : RequireEvent(common, COMMON_EVENTS[i]) = None
              /\ \A i \in DOMAIN REPOSITORY_METHODS :
                   RequireAny(common, "IDataRepository", REPOSITORY_METHODS[i],
                              MethodArity(REPOSITORY_METHODS[i])) = None
<1> DEFINE a == RequireType(act, "IActPluginV1")
           b == RequireVoid(act, "IActPluginV1", "InitPlugin", 2)
           c == RequireVoid(act, "IActPluginV1", "DeInitPlugin", 0)
           d == RequireType(common, "IDataSubscription")
           e == RequireType(common, "IDataRepository")
           head == <<a, b, c, d>>
           events == [i \in DOMAIN COMMON_EVENTS |-> RequireEvent(common, COMMON_EVENTS[i])]
           methods == [i \in DOMAIN REPOSITORY_METHODS |->
                         RequireAny(common, "IDataRepository", REPOSITORY_METHODS[i],
                                    MethodArity(REPOSITORY_METHODS[i]))]
           types == [i \in DOMAIN ModelTypes |-> RequireType(common, ModelTypes[i])]
<1>1. ContractFault(act, common) = FirstOf(head \o events \o <<e>> \o methods \o types)
  BY DEF ContractFault, RequireVoid, RequireAny
<1>2. head \in Seq(ContractFaults) /\ <<e>> \in Seq(ContractFaults)
  <2>1. {"IActPluginV1", "InitPlugin", "DeInitPlugin", "IDataSubscription", "IDataRepository"}
          \subseteq Members
    BY DEF Members
  <2>2. b \in ContractFaults /\ c \in ContractFaults
    BY <2>1, RequireVoidFault
  <2>3. {a, b, c, d, e} \subseteq ContractFaults
    BY <2>1, <2>2, RequireTypeFault
  <2> HIDE DEF a, b, c, d, e
  <2> QED
    BY <2>3
<1>3. events \in Seq(ContractFaults)
  <2>1. DOMAIN COMMON_EVENTS = 1..11
    BY DEF COMMON_EVENTS
  <2>2. \A i \in DOMAIN COMMON_EVENTS : COMMON_EVENTS[i] \in Members
    BY DEF Members, ToSet
  <2>3. \A i \in 1..11 : events[i] \in ContractFaults
    BY <2>1, <2>2, RequireEventFault
  <2>4. events = [i \in 1..11 |-> events[i]]
    BY <2>1
  <2> HIDE DEF events
  <2> QED
    BY <2>3, <2>4
<1>4. methods \in Seq(ContractFaults)
  <2>1. DOMAIN REPOSITORY_METHODS = 1..12
    BY DEF REPOSITORY_METHODS
  <2>2. \A i \in DOMAIN REPOSITORY_METHODS : REPOSITORY_METHODS[i] \in Members
    BY DEF Members, ToSet
  <2>3. \A i \in 1..12 : methods[i] \in ContractFaults
    BY <2>1, <2>2, RequireAnyFault
  <2>4. methods = [i \in 1..12 |-> methods[i]]
    BY <2>1
  <2> HIDE DEF methods
  <2> QED
    BY <2>3, <2>4
<1>5. types \in Seq(ContractFaults)
  <2>1. DOMAIN ModelTypes = 1..5
    BY DEF ModelTypes
  <2>2. \A i \in DOMAIN ModelTypes : ModelTypes[i] \in Members
    BY DEF Members, ToSet
  <2>3. \A i \in 1..5 : types[i] \in ContractFaults
    BY <2>1, <2>2, RequireTypeFault
  <2>4. types = [i \in 1..5 |-> types[i]]
    BY <2>1
  <2> HIDE DEF types
  <2> QED
    BY <2>3, <2>4
<1> DEFINE all == head \o events \o <<e>> \o methods \o types
<1>6. /\ head \o events \in Seq(ContractFaults)
      /\ head \o events \o <<e>> \in Seq(ContractFaults)
      /\ head \o events \o <<e>> \o methods \in Seq(ContractFaults)
      /\ all \in Seq(ContractFaults)
  <2> HIDE DEF head, events, methods, types, e
  <2> QED
    BY <1>2, <1>3, <1>4, <1>5
<1>7. FirstOf(all) \in ContractFaults
  <2> HIDE DEF all
  <2>1. FirstOf(all) # None => \E i \in DOMAIN all : FirstOf(all) = all[i]
    BY <1>6, FirstOfSpec
  <2>2. \A i \in DOMAIN all : all[i] \in ContractFaults
    BY <1>6
  <2>3. None \in ContractFaults
    BY DEF None, GenerateError, ContractFaults, Members
  <2> QED
    BY <2>1, <2>2, <2>3
<1>8. ASSUME FirstOf(all) = None
      PROVE  (\A i \in DOMAIN events : events[i] = None) /\ (\A i \in DOMAIN methods : methods[i] = None)
  <2> HIDE DEF head, events, methods, types, e
  <2>1. \A i \in DOMAIN all : all[i] = None
    <3> HIDE DEF all
    <3> QED
      BY <1>6, <1>8, FirstOfSpec
  <2>2. \A i \in DOMAIN (head \o events \o <<e>> \o methods) :
          (head \o events \o <<e>> \o methods)[i] = None
    BY <2>1, <1>5, <1>6, ConcatPasses
  <2>3. /\ \A i \in DOMAIN (head \o events \o <<e>>) : (head \o events \o <<e>>)[i] = None
        /\ \A i \in DOMAIN methods : methods[i] = None
    BY <2>2, <1>4, <1>6, ConcatPasses
  <2>4. \A i \in DOMAIN (head \o events) : (head \o events)[i] = None
    BY <2>3, <1>2, <1>6, ConcatPasses
  <2> QED
    BY <2>3, <2>4, <1>2, <1>3, ConcatPasses
<1>9. ASSUME FirstOf(all) = None
      PROVE  /\ \A i \in DOMAIN COMMON_EVENTS : RequireEvent(common, COMMON_EVENTS[i]) = None
             /\ \A i \in DOMAIN REPOSITORY_METHODS :
                  RequireAny(common, "IDataRepository", REPOSITORY_METHODS[i],
                             MethodArity(REPOSITORY_METHODS[i])) = None
  <2> HIDE DEF all
  <2> QED
    BY <1>8, <1>9
<1>10. ContractFault(act, common) = FirstOf(all)
  BY <1>1
<1> HIDE DEF all
<1> QED
  BY <1>7, <1>9, <1>10

(* Every call a stub makes on the repository is a method that is checked. *)
LEMMA CallsListed ==
  ASSUME NEW call \in RepositoryCalls
  PROVE  \E i \in DOMAIN REPOSITORY_METHODS :
           call = Calls("IDataRepository", REPOSITORY_METHODS[i], MethodArity(REPOSITORY_METHODS[i]))
<1>1. DOMAIN REPOSITORY_METHODS = 1..12
  BY DEF REPOSITORY_METHODS
<1>2. PICK name \in {"GetCurrentPlayerID", "GetCurrentTerritoryID", "GetSelectedLanguageID",
               "GetGameVersion", "IsChatLogAvailable", "GetCombatantList", "GetPlayer",
               "GetCurrentFFXIVProcess", "GetServerTimestamp", "GetAntiVirusNames",
               "GetGameRegion", "GetResourceDictionary"} :
        call = Calls("IDataRepository", name, MethodArity(name))
  BY DEF RepositoryCalls, MethodArity
<1>3. \E i \in 1..12 : REPOSITORY_METHODS[i] = name
  BY DEF REPOSITORY_METHODS
<1> QED
  BY <1>1, <1>2, <1>3

(* So contracts without a fault offer whatever the stubs bind to. *)
LEMMA ContractsOffer ==
  ASSUME NEW act, NEW common, ContractFault(act, common) = None
  PROVE  /\ \A event \in DOMAIN HandlerArities :
              /\ event \in DOMAIN common.events
              /\ Offers(common, Calls(common.events[event], "Invoke", HandlerArities[event]))
         /\ \A call \in RepositoryCalls : Offers(common, call)
<1>1. ASSUME NEW event \in DOMAIN HandlerArities
      PROVE  /\ event \in DOMAIN common.events
             /\ Offers(common, Calls(common.events[event], "Invoke", HandlerArities[event]))
  <2>1. PICK i \in DOMAIN COMMON_EVENTS : COMMON_EVENTS[i] = event
    BY EventsListed
  <2>2. event \in Members
    BY <2>1 DEF Members, ToSet
  <2>3. RequireEvent(common, event) = None
    BY <2>1, ContractsChecked
  <2>4. /\ event \in DOMAIN common.events
        /\ Takes(common, common.events[event], "Invoke", EventArity(event))
    BY <2>2, <2>3, RequireEventFault
  <2>5. HandlerArities[event] = EventArity(event)
    BY EventsListed
  <2> QED
    BY <2>4, <2>5 DEF Takes, Offers, Calls, MethodsOf
<1>2. ASSUME NEW call \in RepositoryCalls
      PROVE  Offers(common, call)
  <2>1. PICK i \in DOMAIN REPOSITORY_METHODS :
          call = Calls("IDataRepository", REPOSITORY_METHODS[i], MethodArity(REPOSITORY_METHODS[i]))
    BY CallsListed
  <2>2. REPOSITORY_METHODS[i] \in Members
    BY DEF Members, ToSet
  <2>3. RequireAny(common, "IDataRepository", REPOSITORY_METHODS[i],
                      MethodArity(REPOSITORY_METHODS[i])) = None
    BY ContractsChecked
  <2>4. Takes(common, "IDataRepository", REPOSITORY_METHODS[i],
              MethodArity(REPOSITORY_METHODS[i]))
    BY <2>2, <2>3, RequireAnyFault
  <2> QED
    BY <2>1, <2>4 DEF Takes, Offers, Calls, MethodsOf
<1> QED
  BY <1>1, <1>2

-------------------------------------------------------------------------------
(* What a build has established when it is past a stage.                     *)

(* The stages behind each of the stages that check or patch something. *)
PastTab        == {"emit", "write", "written"}
PastNative     == {"tabString"} \cup PastTab
PastModuleRef  == {"nativeString"} \cup PastNative
PastRefCommon  == {"moduleRef"} \cup PastModuleRef
PastRefAct     == {"refCommon"} \cup PastRefCommon
PastAttributes == {"refAct"} \cup PastRefAct
PastAssembly   == {"attributes"} \cup PastAttributes
PastResource   == {"template", "assembly"} \cup PastAssembly
PastContracts  == {"identities", "resource"} \cup PastResource
PastConfig     == {"act", "common", "contracts"} \cup PastContracts

(* What the checks that were passed say, and what the error of a build says of them. *)
Checked ==
  /\ pc \in {"target", "config", "failed"} \cup PastConfig
  /\ input \in Inputs
  /\ pc \in PastConfig => ConfigFault(input.config, input.host) = None
  /\ pc \in PastContracts => ContractFault(input.act, input.common) = None
  /\ error = InvalidConfig("product_version") => ConfigFault(input.config, input.host) = error
  /\ error \in {InvalidConfig("capacity"), WriteError("bounds")} =>
       /\ ConfigFault(input.config, input.host) = None
       /\ ResourceFault(input.template, input.config) = error

(* The module reference that is renamed: the first of the placeholders. *)
FirstNative(row) ==
  /\ row \in DOMAIN input.template.moduleRefs
  /\ input.template.moduleRefs[row] = NATIVE_PLACEHOLDER
  /\ \A j \in 1..(row - 1) : input.template.moduleRefs[j] # NATIVE_PLACEHOLDER

(* The fields of the image: the template's up to the stage that writes them. *)
ResourcePatched ==
  /\ DOMAIN image = DOMAIN input.template
  /\ image.version = IF pc \in PastResource THEN PatchedVersion(input.template.version, input.config)
                     ELSE input.template.version
  /\ image.slot = input.template.slot

(* The manifest and the attributes that describe the assembly. *)
ManifestPatched ==
  /\ pc \in PastAssembly => input.template.assembly # <<>> /\ input.template.module # <<>>
  /\ image.assembly =
       IF pc \in PastAssembly
       THEN [input.template.assembly EXCEPT
               ![1] = [name |-> input.config.assembly, version |-> input.config.version]]
       ELSE input.template.assembly
  /\ image.module =
       IF pc \in PastAssembly
       THEN [input.template.module EXCEPT ![1] = DllName(input.config.assembly)]
       ELSE input.template.module
  /\ image.attributes =
       IF pc \in PastAttributes THEN Over(AttributeTexts(input.config), input.template.attributes)
       ELSE input.template.attributes

(* The references: each one the template's, or one that names an SDK assembly. *)
ReferencesPatched ==
  /\ DOMAIN image.refs = DOMAIN input.template.refs
  /\ \A i \in DOMAIN image.refs :
       \/ image.refs[i] = input.template.refs[i]
       \/ \E a \in {input.act, input.common} : Names(image.refs[i], a.identity)
  /\ pc \in PastRefAct =>
       \E i \in DOMAIN image.refs :
         RefersTo(i, ACT_NAME) /\ Names(image.refs[i], input.act.identity)
  /\ pc \in PastRefCommon =>
       \E i \in DOMAIN image.refs :
         RefersTo(i, COMMON_NAME) /\ Names(image.refs[i], input.common.identity)

(* The library is named in one module reference and, like the tab, in the user strings. *)
StringsPatched ==
  /\ IF pc \in PastModuleRef
     THEN \E i \in DOMAIN input.template.moduleRefs :
            /\ FirstNative(i)
            /\ image.moduleRefs = [input.template.moduleRefs EXCEPT ![i] = input.config.native]
     ELSE image.moduleRefs = input.template.moduleRefs
  /\ DOMAIN image.userStrings = DOMAIN input.template.userStrings
  /\ \A i \in DOMAIN image.userStrings :
       image.userStrings[i] =
         CASE pc \in PastNative /\ input.template.userStrings[i] = NATIVE_PLACEHOLDER ->
                input.config.native
           [] pc \in PastTab /\ input.template.userStrings[i] = TAB_NAME_PLACEHOLDER ->
                input.config.tab
           [] OTHER -> input.template.userStrings[i]

Patched == ResourcePatched /\ ManifestPatched /\ ReferencesPatched /\ StringsPatched

(* The invariant of a build. StagesChecked proves it; the properties need it because
   none of them says what the checks, whose inputs are gone from the image, have found. *)
StageInv ==
  /\ Checked
  /\ pc # "failed" => Patched
  /\ pc = "written" => file = image

-------------------------------------------------------------------------------
(* The faults a stage may report are told apart by their kinds.              *)

ConfigFaults ==
  {None, InvalidConfig("assembly_name"), InvalidConfig("tab_name"),
   InvalidConfig("native_dll_name"), InvalidConfig("metadata"), InvalidConfig("product_version")}

(* What the checks of a configuration report, and what passing them means. *)
LEMMA MetadataChecked ==
  ASSUME NEW config
  PROVE  /\ MetadataFault(config) \in ConfigFaults
         /\ MetadataFault(config) = None =>
              /\ \A i \in 1..8 : Width(MetadataTexts(config)[i]) <= MAX_STRING_LEN
              /\ ProductVersionFault(config.product) = None
         /\ MetadataFault(config) = InvalidConfig("product_version") =>
              ProductVersionFault(config.product) # None
<1> DEFINE passes(i) == /\ ~Has(MetadataTexts(config)[i], {"NUL"})
                        /\ Width(MetadataTexts(config)[i]) <= MAX_STRING_LEN
           texts == [i \in DOMAIN MetadataTexts(config) |->
                       Check(passes(i), InvalidConfig("metadata"))]
           version == ProductVersionFault(config.product)
           S == {None, InvalidConfig("metadata"), InvalidConfig("product_version")}
<1>1. DOMAIN MetadataTexts(config) = 1..8
  BY DEF MetadataTexts
<1>2. /\ texts \in Seq(S)
      /\ \A i \in 1..8 : texts[i] \in {None, InvalidConfig("metadata")}
  <2>1. \A i \in 1..8 : Check(passes(i), InvalidConfig("metadata")) \in {None, InvalidConfig("metadata")}
    BY DEF Check
  <2>2. texts = [i \in 1..8 |-> Check(passes(i), InvalidConfig("metadata"))]
    BY <1>1
  <2>3. \A i \in 1..8 : texts[i] \in S
    BY <2>1, <2>2
  <2> HIDE DEF passes, S
  <2>4. texts \in Seq(S)
    BY <2>2, <2>3
  <2> QED
    BY <2>1, <2>2, <2>4
<1>3. version \in {None, InvalidConfig("product_version")} /\ version \in S
  BY DEF ProductVersionFault, Check
<1>4. MetadataFault(config) = FirstOf(texts \o <<version>>)
  BY DEF MetadataFault
<1>5. /\ None # InvalidConfig("metadata") /\ None # InvalidConfig("product_version")
      /\ InvalidConfig("metadata") # InvalidConfig("product_version")
  BY DEF None, InvalidConfig, GenerateError
<1>6. \A i \in 1..8 : texts[i] = None => Width(MetadataTexts(config)[i]) <= MAX_STRING_LEN
  <2> SUFFICES ASSUME NEW i \in 1..8, texts[i] = None
               PROVE  Width(MetadataTexts(config)[i]) <= MAX_STRING_LEN
    OBVIOUS
  <2>1. Check(passes(i), InvalidConfig("metadata")) = None
    BY <1>1
  <2> QED
    BY <2>1, <1>5 DEF Check
<1>7. Len(texts) = 8
  BY <1>1
<1> HIDE DEF texts, version, S
<1>8. /\ texts \o <<version>> \in Seq(S)
      /\ DOMAIN (texts \o <<version>>) = 1..9
      /\ \A i \in 1..8 : (texts \o <<version>>)[i] = texts[i]
      /\ (texts \o <<version>>)[9] = version
  <2>1. /\ texts \o <<version>> \in Seq(S)
        /\ DOMAIN (texts \o <<version>>) = 1..(Len(texts) + 1)
        /\ \A i \in 1..Len(texts) : (texts \o <<version>>)[i] = texts[i]
        /\ (texts \o <<version>>)[Len(texts) + 1] = version
    BY <1>2, <1>3, OneMore
  <2> QED
    BY <2>1, <1>7
<1>9. PICK r : r = texts \o <<version>>
  OBVIOUS
<1>10. /\ r \in Seq(S) /\ DOMAIN r = 1..9
       /\ \A i \in 1..8 : r[i] = texts[i]
       /\ r[9] = version
  BY <1>8, <1>9
<1>11. FirstOf(r) = None => \A i \in 1..9 : r[i] = None
  BY <1>10, FirstOfSpec
<1>12. FirstOf(r) # None => \E i \in 1..9 : FirstOf(r) = r[i]
  BY <1>10, FirstOfSpec
<1>13. MetadataFault(config) = FirstOf(r)
  BY <1>4, <1>9
<1>14. FirstOf(r) = None => (\A i \in 1..8 : texts[i] = None) /\ version = None
  BY <1>11, <1>10
<1>15. FirstOf(r) \in {None, InvalidConfig("metadata"), version}
  BY <1>12, <1>2, <1>10
<1>16. FirstOf(r) = InvalidConfig("product_version") => version # None
  BY <1>15, <1>5
<1> QED
  BY <1>6, <1>13, <1>14, <1>15, <1>16, <1>3 DEF version, ConfigFaults

(* A configuration passes only with its metadata, which alone faults the version. *)
LEMMA ConfigChecked ==
  ASSUME NEW config, NEW host
  PROVE  /\ ConfigFault(config, host) \in ConfigFaults
         /\ ConfigFault(config, host) = None => MetadataFault(config) = None
         /\ ConfigFault(config, host) = InvalidConfig("product_version") =>
              MetadataFault(config) = InvalidConfig("product_version")
<1> DEFINE a == Check(config.assembly # <<>> /\ ~Has(config.assembly, {"/", "\\", "NUL"}),
                  InvalidConfig("assembly_name"))
           b == Check(config.tab # <<>>, InvalidConfig("tab_name"))
           c == Check(IsDllFileName(config.native, host), InvalidConfig("native_dll_name"))
           d == MetadataFault(config)
<1>1. /\ a \in {None, InvalidConfig("assembly_name")}
      /\ b \in {None, InvalidConfig("tab_name")}
      /\ c \in {None, InvalidConfig("native_dll_name")}
      /\ d \in ConfigFaults
  BY MetadataChecked DEF Check
<1>2. ConfigFault(config, host) = FirstOf(<<a, b, c, d>>)
  BY DEF ConfigFault
<1> HIDE DEF a, b, c, d
<1>3. PICK r : r = <<a, b, c, d>>
  OBVIOUS
<1>4. r \in Seq(ConfigFaults) /\ DOMAIN r = 1..4 /\ r[1] = a /\ r[2] = b /\ r[3] = c /\ r[4] = d
  BY <1>1, <1>3 DEF ConfigFaults
<1>5. FirstOf(r) = None => d = None
  BY <1>4, FirstOfSpec
<1>6. FirstOf(r) # None => \E i \in 1..4 : FirstOf(r) = r[i]
  BY <1>4, FirstOfSpec
<1>7. FirstOf(r) \in {None, a, b, c, d}
  BY <1>4, <1>6
<1>8. InvalidConfig("product_version") \notin
        {None, InvalidConfig("assembly_name"), InvalidConfig("tab_name"),
         InvalidConfig("native_dll_name")}
  BY DEF None, InvalidConfig, GenerateError
<1>9. FirstOf(r) = InvalidConfig("product_version") => d = InvalidConfig("product_version")
  BY <1>1, <1>7, <1>8
<1>10. FirstOf(r) \in ConfigFaults
  BY <1>1, <1>7 DEF ConfigFaults
<1> QED
  BY <1>2, <1>3, <1>5, <1>9, <1>10 DEF d

(* The faults of the stages other than ValidateConfig and ApplyVersionResource. *)
OtherKinds == {"none", "OutDir", "Io", "InvalidAssembly", "MissingAssemblyManifest", "MissingType",
               "MissingMember", "IncompatibleSignature"}
OtherMatters == {"act", "common", "template", "<Module>", "reference", "module reference",
                 "user string"}
OtherFaults == (OtherKinds \X (Members \cup OtherMatters))
               \cup {WriteError("attributes"), WriteError("library")}

(* No other stage reports the faults the properties are about. *)
LEMMA FaultKinds ==
  /\ OtherFaults \cap {InvalidConfig("product_version"), InvalidConfig("capacity"),
                       WriteError("bounds")} = {}
  /\ ConfigFaults \cap {InvalidConfig("capacity"), WriteError("bounds")} = {}
  /\ None \in OtherFaults
<1>1. None \in OtherFaults
  BY DEF None, GenerateError, OtherFaults, OtherKinds, Members
<1>2. ConfigFaults \cap {InvalidConfig("capacity"), WriteError("bounds")} = {}
  BY DEF ConfigFaults, InvalidConfig, WriteError, None, GenerateError
<1>3. OtherFaults \cap {InvalidConfig("product_version"), InvalidConfig("capacity"),
                        WriteError("bounds")} = {}
  <2>1. InvalidConfig("product_version") \notin OtherFaults
    BY DEF OtherFaults, OtherKinds, InvalidConfig, WriteError, GenerateError
  <2>2. InvalidConfig("capacity") \notin OtherFaults
    BY DEF OtherFaults, OtherKinds, InvalidConfig, WriteError, GenerateError
  <2>3. WriteError("bounds") \notin OtherFaults
    BY DEF OtherFaults, OtherKinds, WriteError, GenerateError
  <2> QED
    BY <2>1, <2>2, <2>3
<1> QED
  BY <1>1, <1>2, <1>3

(* The resource is never the one to fault the version of the product. *)
LEMMA ResourceFaultKinds ==
  ASSUME NEW template, NEW config
  PROVE  ResourceFault(template, config) # InvalidConfig("product_version")
<1> DEFINE S == {None, WriteError("no slot"), InvalidConfig("capacity"), WriteError("bounds")}
           a == Check(template.slot.found, WriteError("no slot"))
           b == Check(ResourceBytes(ResourceStrings(template.version.strings, config))
                        <= template.slot.capacity, InvalidConfig("capacity"))
           c == Check(template.slot.offset + template.slot.capacity <= template.slot.size,
                      WriteError("bounds"))
<1>1. a \in S /\ b \in S /\ c \in S
  BY DEF Check
<1>2. InvalidConfig("product_version") \notin S \cup {WriteError("version info")}
  BY DEF InvalidConfig, WriteError, None, GenerateError
<1>3. None \in S
  OBVIOUS
<1>4. ResourceFault(template, config) \in {WriteError("version info"), FirstOf(<<a, b, c>>)}
  BY DEF ResourceFault
<1> HIDE DEF a, b, c, S
<1>5. PICK r : r = <<a, b, c>>
  OBVIOUS
<1>6. r \in Seq(S)
  BY <1>1, <1>5
<1>7. FirstOf(r) # None => \E i \in DOMAIN r : FirstOf(r) = r[i]
  BY <1>6, FirstOfSpec
<1>8. \A i \in DOMAIN r : r[i] \in S
  BY <1>6
<1>9. FirstOf(r) \in S
  BY <1>3, <1>7, <1>8
<1> QED
  BY <1>2, <1>4, <1>5, <1>9

-------------------------------------------------------------------------------
(* A stage either passes or ends the build.                                  *)

LEMMA StageStep ==
  ASSUME NEW this, NEW next, NEW fault, NEW patched, Stage(this, next, fault, patched)
  PROVE  /\ pc = this /\ input' = input /\ file' = file
         /\ \/ fault = None /\ pc' = next /\ image' = patched /\ error' = error
            \/ fault # None /\ pc' = "failed" /\ image' = image /\ error' = fault
BY DEF Stage

(* The stages that a fault may stop. *)
Stages == {"target", "config", "act", "common", "contracts", "identities", "resource",
           "template", "assembly", "attributes", "refAct", "refCommon", "moduleRef",
           "nativeString", "tabString", "emit"}

(* The stages whose fault is neither a configuration's nor the resource's. *)
LEMMA CheckedKept ==
  ASSUME Checked, NEW this \in Stages, NEW next, NEW fault \in OtherFaults, NEW patched,
         Stage(this, next, fault, patched),
         next \in {"target", "config", "failed"} \cup PastConfig,
         next \in PastConfig => this \in PastConfig,
         next \in PastContracts => this \in PastContracts
  PROVE  Checked'
<1>1. /\ pc = this /\ input' = input
      /\ pc' \in {next, "failed"}
      /\ error' = error \/ error' \in OtherFaults
  BY StageStep
<1>2. "failed" \notin PastConfig
  BY DEF PastConfig, PastContracts, PastResource, PastAssembly, PastAttributes, PastRefAct,
         PastRefCommon, PastModuleRef, PastNative, PastTab
<1>3. "failed" \notin PastContracts
  BY <1>2 DEF PastConfig
<1>4. error' \notin {InvalidConfig("product_version"), InvalidConfig("capacity"),
                     WriteError("bounds")} \/ error' = error
  BY <1>1, FaultKinds
<1>5. /\ pc' \in PastConfig => pc \in PastConfig
      /\ pc' \in PastContracts => pc \in PastContracts
      /\ pc' \in {"target", "config", "failed"} \cup PastConfig
  BY <1>1, <1>2, <1>3
<1> QED
  BY <1>1, <1>4, <1>5 DEF Checked

(* Checks of these faults, and the contracts, report only these faults. *)
LEMMA CheckKinds ==
  /\ \A holds, fault : fault \in OtherFaults => Check(holds, fault) \in OtherFaults
  /\ \A a, b : a \in OtherFaults /\ b \in OtherFaults => FirstOf(<<a, b>>) \in OtherFaults
  /\ ContractFaults \subseteq OtherFaults
<1>1. \A holds, fault : fault \in OtherFaults => Check(holds, fault) \in OtherFaults
  BY FaultKinds DEF Check
<1>2. \A a, b : a \in OtherFaults /\ b \in OtherFaults => FirstOf(<<a, b>>) \in OtherFaults
  BY FirstOfPair
<1>3. ContractFaults \subseteq OtherFaults
  BY DEF ContractFaults, OtherFaults, OtherKinds
<1> QED
  BY <1>1, <1>2, <1>3

(* The faults that the stages report. *)
LEMMA OtherFaultsListed ==
  /\ \A kind \in OtherKinds, about \in OtherMatters : GenerateError(kind, about) \in OtherFaults
  /\ GenerateError("OutDir", "") \in OtherFaults /\ GenerateError("Io", "") \in OtherFaults
  /\ WriteError("attributes") \in OtherFaults /\ WriteError("library") \in OtherFaults
<1>1. \A kind \in OtherKinds, about \in Members \cup OtherMatters :
        GenerateError(kind, about) \in OtherFaults
  BY DEF OtherFaults, GenerateError
<1>2. "OutDir" \in OtherKinds /\ "Io" \in OtherKinds /\ "" \in Members
  BY DEF OtherKinds, Members
<1>3. WriteError("attributes") \in OtherFaults /\ WriteError("library") \in OtherFaults
  BY DEF OtherFaults
<1> QED
  BY <1>1, <1>2, <1>3

(* The stages in order: what they are past grows with them. *)
LEMMA StageOrder ==
  /\ {"target", "config", "failed"} \cap PastConfig = {}
  /\ {"act", "common", "contracts"} \subseteq PastConfig \ PastContracts
  /\ {"identities", "resource"} \subseteq PastContracts \ PastResource
  /\ {"template", "assembly"} \subseteq PastResource \ PastAssembly
  /\ "attributes" \in PastAssembly \ PastAttributes
  /\ "refAct" \in PastAttributes \ PastRefAct
  /\ "refCommon" \in PastRefAct \ PastRefCommon
  /\ "moduleRef" \in PastRefCommon \ PastModuleRef
  /\ "nativeString" \in PastModuleRef \ PastNative
  /\ "tabString" \in PastNative \ PastTab
  /\ {"emit", "write", "written"} \subseteq PastTab
  /\ PastTab \subseteq PastNative /\ PastNative \subseteq PastModuleRef
  /\ PastModuleRef \subseteq PastRefCommon /\ PastRefCommon \subseteq PastRefAct
  /\ PastRefAct \subseteq PastAttributes /\ PastAttributes \subseteq PastAssembly
  /\ PastAssembly \subseteq PastResource /\ PastResource \subseteq PastContracts
  /\ PastContracts \subseteq PastConfig
BY DEF PastConfig, PastContracts, PastResource, PastAssembly, PastAttributes, PastRefAct,
         PastRefCommon, PastModuleRef, PastNative, PastTab

(* The actions that are such a stage. *)
LEMMA StageFaults ==
  /\ FindTarget => \E f \in OtherFaults : Stage("target", "config", f, image)
  /\ ParseAct => \E f \in OtherFaults : Stage("act", "common", f, image)
  /\ ParseCommon => \E f \in OtherFaults : Stage("common", "contracts", f, image)
  /\ ValidateContracts => \E f \in OtherFaults : Stage("contracts", "identities", f, image)
  /\ Identities => \E f \in OtherFaults : Stage("identities", "resource", f, image)
  /\ ParseTemplate => \E f \in OtherFaults : Stage("template", "assembly", f, image)
  /\ ReplaceAssemblyName => \E p : \E f \in OtherFaults : Stage("assembly", "attributes", f, p)
  /\ ApplyAssemblyAttributes => \E p : \E f \in OtherFaults : Stage("attributes", "refAct", f, p)
  /\ ReferToAct => \E p : \E f \in OtherFaults : Stage("refAct", "refCommon", f, p)
  /\ ReferToCommon => \E p : \E f \in OtherFaults : Stage("refCommon", "moduleRef", f, p)
  /\ ReplaceModuleReference => \E p : \E f \in OtherFaults : Stage("moduleRef", "nativeString", f, p)
  /\ NameLibrary => \E p : \E f \in OtherFaults : Stage("nativeString", "tabString", f, p)
  /\ NameTab => \E p : \E f \in OtherFaults : Stage("tabString", "emit", f, p)
  /\ Emit => \E f \in OtherFaults : Stage("emit", "write", f, image)
<1>1. FindTarget => \E f \in OtherFaults : Stage("target", "config", f, image)
  BY CheckKinds, OtherFaultsListed DEF FindTarget
<1>2. ParseAct => \E f \in OtherFaults : Stage("act", "common", f, image)
  BY CheckKinds, OtherFaultsListed DEF ParseAct, Parse, OtherKinds, OtherMatters
<1>3. ParseCommon => \E f \in OtherFaults : Stage("common", "contracts", f, image)
  BY CheckKinds, OtherFaultsListed DEF ParseCommon, Parse, OtherKinds, OtherMatters
<1>4. ValidateContracts => \E f \in OtherFaults : Stage("contracts", "identities", f, image)
  BY CheckKinds, ContractsChecked DEF ValidateContracts
<1>5. Identities => \E f \in OtherFaults : Stage("identities", "resource", f, image)
  BY CheckKinds, OtherFaultsListed DEF Identities, OtherKinds, OtherMatters
<1>6. ParseTemplate => \E f \in OtherFaults : Stage("template", "assembly", f, image)
  BY CheckKinds, OtherFaultsListed DEF ParseTemplate, OtherKinds, OtherMatters
<1>7. ReplaceAssemblyName => \E p : \E f \in OtherFaults : Stage("assembly", "attributes", f, p)
  BY CheckKinds, OtherFaultsListed DEF ReplaceAssemblyName, OtherKinds, OtherMatters
<1>8. ApplyAssemblyAttributes => \E p : \E f \in OtherFaults : Stage("attributes", "refAct", f, p)
  BY CheckKinds, OtherFaultsListed DEF ApplyAssemblyAttributes, OtherKinds, OtherMatters
<1>9. ReferToAct => \E p : \E f \in OtherFaults : Stage("refAct", "refCommon", f, p)
  BY CheckKinds, OtherFaultsListed
     DEF ReferToAct, ReplaceAssemblyReference, OtherKinds, OtherMatters
<1>10. ReferToCommon => \E p : \E f \in OtherFaults : Stage("refCommon", "moduleRef", f, p)
  BY CheckKinds, OtherFaultsListed
     DEF ReferToCommon, ReplaceAssemblyReference, OtherKinds, OtherMatters
<1>11. ReplaceModuleReference => \E p : \E f \in OtherFaults : Stage("moduleRef", "nativeString", f, p)
  BY CheckKinds, OtherFaultsListed DEF ReplaceModuleReference, OtherKinds, OtherMatters
<1>12. NameLibrary => \E p : \E f \in OtherFaults : Stage("nativeString", "tabString", f, p)
  BY CheckKinds, OtherFaultsListed DEF NameLibrary, ReplaceUserString, OtherKinds, OtherMatters
<1>13. NameTab => \E p : \E f \in OtherFaults : Stage("tabString", "emit", f, p)
  BY CheckKinds, OtherFaultsListed DEF NameTab, ReplaceUserString, OtherKinds, OtherMatters
<1>14. Emit => \E f \in OtherFaults : Stage("emit", "write", f, image)
  BY FaultKinds DEF Emit
<1> QED
  BY <1>1, <1>2, <1>3, <1>4, <1>5, <1>6, <1>7, <1>8, <1>9, <1>10, <1>11, <1>12, <1>13, <1>14

(* Every step keeps what the checks have found. *)
LEMMA CheckedStep ==
  ASSUME StageInv, [Next]_vars
  PROVE  Checked'
<1>1. Checked
  BY DEF StageInv
<1>2. CASE FindTarget
  <2>1. PICK f \in OtherFaults : Stage("target", "config", f, image)
    BY <1>2, StageFaults
  <2> QED
    BY <1>1, <2>1, CheckedKept, StageOrder DEF Stages
<1>3. CASE ValidateConfig
  <2>1. /\ pc = "config" /\ input' = input
        /\ \/ ConfigFault(input.config, input.host) = None /\ pc' = "act" /\ error' = error
           \/ pc' = "failed" /\ error' = ConfigFault(input.config, input.host)
    BY <1>3, StageStep DEF ValidateConfig
  <2>2. ConfigFault(input.config, input.host) \in ConfigFaults
    BY ConfigChecked
  <2> QED
    BY <1>1, <2>1, <2>2, FaultKinds, StageOrder DEF Checked
<1>4. CASE ParseAct
  <2>1. PICK f \in OtherFaults : Stage("act", "common", f, image)
    BY <1>4, StageFaults
  <2> QED
    BY <1>1, <2>1, CheckedKept, StageOrder DEF Stages
<1>5. CASE ParseCommon
  <2>1. PICK f \in OtherFaults : Stage("common", "contracts", f, image)
    BY <1>5, StageFaults
  <2> QED
    BY <1>1, <2>1, CheckedKept, StageOrder DEF Stages
<1>6. CASE ValidateContracts
  <2>1. /\ pc = "contracts" /\ input' = input
        /\ \/ /\ ContractFault(input.act, input.common) = None
              /\ pc' = "identities" /\ error' = error
           \/ pc' = "failed" /\ error' = ContractFault(input.act, input.common)
    BY <1>6, StageStep DEF ValidateContracts
  <2>2. ContractFault(input.act, input.common) \in OtherFaults
    BY ContractsChecked, CheckKinds
  <2> QED
    BY <1>1, <2>1, <2>2, FaultKinds, StageOrder DEF Checked
<1>7. CASE Identities
  <2>1. PICK f \in OtherFaults : Stage("identities", "resource", f, image)
    BY <1>7, StageFaults
  <2> QED
    BY <1>1, <2>1, CheckedKept, StageOrder DEF Stages
<1>8. CASE ApplyVersionResource
  <2>1. /\ pc = "resource" /\ input' = input
        /\ \/ pc' = "template" /\ error' = error
           \/ pc' = "failed" /\ error' = ResourceFault(image, input.config)
    BY <1>8, StageStep DEF ApplyVersionResource
  <2>2. /\ image.version = input.template.version
        /\ image.slot = input.template.slot
    BY <2>1, StageOrder DEF StageInv, Patched, ResourcePatched
  <2>3. ResourceFault(image, input.config) = ResourceFault(input.template, input.config)
    BY <2>2 DEF ResourceFault
  <2>4. ResourceFault(image, input.config) # InvalidConfig("product_version")
    BY ResourceFaultKinds
  <2>5. ConfigFault(input.config, input.host) = None
    BY <1>1, <2>1, StageOrder DEF Checked
  <2> QED
    BY <1>1, <2>1, <2>3, <2>4, <2>5, StageOrder DEF Checked
<1>9. CASE ParseTemplate
  <2>1. PICK f \in OtherFaults : Stage("template", "assembly", f, image)
    BY <1>9, StageFaults
  <2> QED
    BY <1>1, <2>1, CheckedKept, StageOrder DEF Stages
<1>10. CASE ReplaceAssemblyName
  <2>1. PICK p : \E f \in OtherFaults : Stage("assembly", "attributes", f, p)
    BY <1>10, StageFaults
  <2> QED
    BY <1>1, <2>1, CheckedKept, StageOrder DEF Stages
<1>11. CASE ApplyAssemblyAttributes
  <2>1. PICK p : \E f \in OtherFaults : Stage("attributes", "refAct", f, p)
    BY <1>11, StageFaults
  <2> QED
    BY <1>1, <2>1, CheckedKept, StageOrder DEF Stages
<1>12. CASE ReferToAct
  <2>1. PICK p : \E f \in OtherFaults : Stage("refAct", "refCommon", f, p)
    BY <1>12, StageFaults
  <2> QED
    BY <1>1, <2>1, CheckedKept, StageOrder DEF Stages
<1>13. CASE ReferToCommon
  <2>1. PICK p : \E f \in OtherFaults : Stage("refCommon", "moduleRef", f, p)
    BY <1>13, StageFaults
  <2> QED
    BY <1>1, <2>1, CheckedKept, StageOrder DEF Stages
<1>14. CASE ReplaceModuleReference
  <2>1. PICK p : \E f \in OtherFaults : Stage("moduleRef", "nativeString", f, p)
    BY <1>14, StageFaults
  <2> QED
    BY <1>1, <2>1, CheckedKept, StageOrder DEF Stages
<1>15. CASE NameLibrary
  <2>1. PICK p : \E f \in OtherFaults : Stage("nativeString", "tabString", f, p)
    BY <1>15, StageFaults
  <2> QED
    BY <1>1, <2>1, CheckedKept, StageOrder DEF Stages
<1>16. CASE NameTab
  <2>1. PICK p : \E f \in OtherFaults : Stage("tabString", "emit", f, p)
    BY <1>16, StageFaults
  <2> QED
    BY <1>1, <2>1, CheckedKept, StageOrder DEF Stages
<1>17. CASE Emit
  <2>1. PICK f \in OtherFaults : Stage("emit", "write", f, image)
    BY <1>17, StageFaults
  <2> QED
    BY <1>1, <2>1, CheckedKept, StageOrder DEF Stages
<1>18. CASE LibraryFails
  <2>1. pc' = "failed" /\ error' = WriteError("library") /\ input' = input
    BY <1>18 DEF LibraryFails
  <2> QED
    BY <1>1, <2>1, OtherFaultsListed, FaultKinds, StageOrder DEF Checked
<1>19. CASE WriteFile
  <2>1. /\ pc = "write" /\ input' = input
        /\ \/ pc' = "written" /\ error' = error
           \/ pc' = "failed" /\ error' = GenerateError("Io", "")
    BY <1>19 DEF WriteFile
  <2> QED
    BY <1>1, <2>1, OtherFaultsListed, FaultKinds, StageOrder DEF Checked
<1>20. CASE UNCHANGED vars
  BY <1>1, <1>20 DEF Checked, vars
<1> QED
  BY <1>2, <1>3, <1>4, <1>5, <1>6, <1>7, <1>8, <1>9, <1>10, <1>11, <1>12, <1>13, <1>14, <1>15,
     <1>16, <1>17, <1>18, <1>19, <1>20 DEF Next

(* Each part of the image stays as it is patched while its fields do. *)
LEMMA ResourceKept ==
  ASSUME input' = input, ResourcePatched,
         DOMAIN image' = DOMAIN image, image'.version = image.version, image'.slot = image.slot,
         pc' \in PastResource <=> pc \in PastResource
  PROVE  ResourcePatched'
BY DEF ResourcePatched

LEMMA ManifestKept ==
  ASSUME input' = input, ManifestPatched,
         image'.assembly = image.assembly, image'.module = image.module,
         image'.attributes = image.attributes,
         pc' \in PastAssembly <=> pc \in PastAssembly,
         pc' \in PastAttributes <=> pc \in PastAttributes
  PROVE  ManifestPatched'
BY DEF ManifestPatched

LEMMA ReferencesKept ==
  ASSUME input' = input, ReferencesPatched, image'.refs = image.refs,
         pc' \in PastRefAct <=> pc \in PastRefAct,
         pc' \in PastRefCommon <=> pc \in PastRefCommon
  PROVE  ReferencesPatched'
BY DEF ReferencesPatched, RefersTo

LEMMA StringsKept ==
  ASSUME input' = input, StringsPatched,
         image'.moduleRefs = image.moduleRefs, image'.userStrings = image.userStrings,
         pc' \in PastModuleRef <=> pc \in PastModuleRef,
         pc' \in PastNative <=> pc \in PastNative,
         pc' \in PastTab <=> pc \in PastTab
  PROVE  StringsPatched'
BY DEF StringsPatched, FirstNative

(* A step within the same part of the build. *)
SamePast ==
  /\ pc' \in PastResource <=> pc \in PastResource
  /\ pc' \in PastAssembly <=> pc \in PastAssembly
  /\ pc' \in PastAttributes <=> pc \in PastAttributes
  /\ pc' \in PastRefAct <=> pc \in PastRefAct
  /\ pc' \in PastRefCommon <=> pc \in PastRefCommon
  /\ pc' \in PastModuleRef <=> pc \in PastModuleRef
  /\ pc' \in PastNative <=> pc \in PastNative
  /\ pc' \in PastTab <=> pc \in PastTab

(* A step that leaves the image alone. *)
LEMMA PatchedKept ==
  ASSUME Patched, input' = input, image' = image, SamePast
  PROVE  Patched'
BY ResourceKept, ManifestKept, ReferencesKept, StringsKept DEF Patched, SamePast

(* The fields of a template. *)
Fields == {"managed", "version", "slot", "assembly", "module", "attributes",
           "refs", "moduleRefs", "userStrings"}

(* The tables of a template are sequences, and the texts of a configuration texts. *)
LEMMA TemplateTables ==
  ASSUME Checked
  PROVE  /\ ConfigType(input.config)
         /\ DOMAIN input.template = Fields
         /\ input.template.assembly \in Seq(ToSet(input.template.assembly))
         /\ input.template.module \in Seq(ToSet(input.template.module))
         /\ input.template.refs \in Seq(ToSet(input.template.refs))
         /\ input.template.moduleRefs \in Seq(ToSet(input.template.moduleRefs))
         /\ input.template.userStrings \in Seq(ToSet(input.template.userStrings))
BY InputsAssumption DEF Checked, TemplateType, IsTable, Fields

(* The version resource is rewritten. *)
LEMMA ResourceStep ==
  ASSUME Checked, Patched, ApplyVersionResource, pc' # "failed"
  PROVE  Patched'
<1>1. /\ pc = "resource" /\ pc' = "template" /\ input' = input
      /\ image' = [image EXCEPT !.version = PatchedVersion(@, input.config)]
  BY StageStep DEF ApplyVersionResource
<1>2. DOMAIN image = Fields
  BY TemplateTables DEF Patched, ResourcePatched
<1>3. /\ DOMAIN image' = DOMAIN image
      /\ image'.version = PatchedVersion(image.version, input.config)
      /\ \A field \in Fields \ {"version"} : image'[field] = image[field]
  BY <1>1, <1>2 DEF Fields
<1>4. ResourcePatched'
  BY <1>1, <1>3, StageOrder DEF Fields, Patched, ResourcePatched
<1>5. ManifestPatched' /\ ReferencesPatched' /\ StringsPatched'
  <2>1. /\ image'.assembly = image.assembly /\ image'.module = image.module
        /\ image'.attributes = image.attributes /\ image'.refs = image.refs
        /\ image'.moduleRefs = image.moduleRefs /\ image'.userStrings = image.userStrings
    BY <1>3 DEF Fields
  <2> QED
    BY <1>1, <2>1, StageOrder, ManifestKept, ReferencesKept, StringsKept DEF Patched
<1> QED
  BY <1>4, <1>5 DEF Patched

(* The assembly and the module are renamed. *)
LEMMA ManifestStep ==
  ASSUME Checked, Patched, ReplaceAssemblyName, pc' # "failed"
  PROVE  Patched'
<1> DEFINE row == [name |-> input.config.assembly, version |-> input.config.version]
           name == DllName(input.config.assembly)
           missing == FirstOf(<<Check(image.assembly # <<>>,
                                      GenerateError("MissingAssemblyManifest", "template")),
                                Check(image.module # <<>>, GenerateError("MissingMember", "<Module>"))>>)
<1>1. /\ pc = "assembly" /\ pc' = "attributes" /\ input' = input /\ missing = None
      /\ image' = [image EXCEPT !.assembly[1] = row, !.module[1] = name]
  BY StageStep DEF ReplaceAssemblyName
<1>2. /\ DOMAIN image = Fields
      /\ image.assembly = input.template.assembly /\ image.module = input.template.module
      /\ image.attributes = input.template.attributes
  BY <1>1, StageOrder, TemplateTables DEF Patched, ResourcePatched, ManifestPatched
<1>3. image.assembly # <<>> /\ image.module # <<>>
  <2>1. /\ Check(image.assembly # <<>>, GenerateError("MissingAssemblyManifest", "template")) = None
        /\ Check(image.module # <<>>, GenerateError("MissingMember", "<Module>")) = None
    BY <1>1, FirstOfPair
  <2> QED
    BY <2>1 DEF Check, None, GenerateError
<1> HIDE DEF row, name, missing
<1>4. /\ DOMAIN image' = DOMAIN image
      /\ image'.assembly = [image.assembly EXCEPT ![1] = row]
      /\ image'.module = [image.module EXCEPT ![1] = name]
      /\ \A field \in Fields \ {"assembly", "module"} : image'[field] = image[field]
  BY <1>1, <1>2 DEF Fields
<1>5. ManifestPatched'
  <2>1. /\ pc' \in PastAssembly /\ pc' \notin PastAttributes
        /\ image'.attributes = input.template.attributes
    BY <1>1, <1>2, <1>4, StageOrder DEF Fields
  <2> QED
    BY <1>1, <1>2, <1>3, <1>4, <2>1 DEF row, name, ManifestPatched
<1>6. ResourcePatched' /\ ReferencesPatched' /\ StringsPatched'
  <2>1. /\ image'.version = image.version /\ image'.slot = image.slot /\ image'.refs = image.refs
        /\ image'.moduleRefs = image.moduleRefs /\ image'.userStrings = image.userStrings
    BY <1>4 DEF Fields
  <2> QED
    BY <1>1, <1>4, <2>1, StageOrder, ResourceKept, ReferencesKept, StringsKept DEF Patched
<1> QED
  BY <1>5, <1>6 DEF Patched

(* The assembly attributes are rewritten. *)
LEMMA AttributesStep ==
  ASSUME Checked, Patched, ApplyAssemblyAttributes, pc' # "failed"
  PROVE  Patched'
<1>1. /\ pc = "attributes" /\ pc' = "refAct" /\ input' = input
      /\ image' = [image EXCEPT !.attributes = Over(AttributeTexts(input.config), @)]
  BY StageStep DEF ApplyAssemblyAttributes
<1>2. DOMAIN image = Fields
  BY TemplateTables DEF Patched, ResourcePatched
<1>3. /\ DOMAIN image' = DOMAIN image
      /\ image'.attributes = Over(AttributeTexts(input.config), image.attributes)
      /\ \A field \in Fields \ {"attributes"} : image'[field] = image[field]
  BY <1>1, <1>2 DEF Fields
<1>4. ManifestPatched'
  <2>1. image'.assembly = image.assembly /\ image'.module = image.module
    BY <1>3 DEF Fields
  <2>2. /\ pc \in PastAssembly /\ pc \notin PastAttributes
        /\ pc' \in PastAssembly /\ pc' \in PastAttributes
    BY <1>1, StageOrder
  <2> QED
    BY <1>1, <1>3, <2>1, <2>2 DEF Patched, ManifestPatched
<1>5. ResourcePatched' /\ ReferencesPatched' /\ StringsPatched'
  <2>1. /\ image'.version = image.version /\ image'.slot = image.slot /\ image'.refs = image.refs
        /\ image'.moduleRefs = image.moduleRefs /\ image'.userStrings = image.userStrings
    BY <1>3 DEF Fields
  <2> QED
    BY <1>1, <1>3, <2>1, StageOrder, ResourceKept, ReferencesKept, StringsKept DEF Patched
<1> QED
  BY <1>4, <1>5 DEF Patched

(* One row of the name, the first, is given the identity; no other row changes. *)
LEMMA Referred ==
  ASSUME Checked, Patched, NEW this, NEW next, NEW old, NEW identity,
         ReplaceAssemblyReference(this, next, old, identity), pc' # "failed"
  PROVE  /\ pc = this /\ pc' = next /\ input' = input
         /\ DOMAIN image' = DOMAIN image
         /\ \A field \in Fields \ {"refs"} : image'[field] = image[field]
         /\ DOMAIN image'.refs = DOMAIN image.refs
         /\ \A i \in DOMAIN image.refs :
              \/ image'.refs[i] = image.refs[i]
              \/ RefersTo(i, old) /\ Names(image'.refs[i], identity)
         /\ \E i \in DOMAIN image.refs : RefersTo(i, old) /\ Names(image'.refs[i], identity)
<1> DEFINE named == [name |-> identity.name, version |-> identity.version,
                     culture |-> identity.culture,
                     token |-> IF identity.strong = {} THEN <<>>
                               ELSE public_key_token(CHOOSE k \in identity.strong : TRUE)]
           first(row) == RefersTo(row, old) /\ \A r \in 1..(row - 1) : ~RefersTo(r, old)
           refs == [row \in DOMAIN image.refs |-> IF first(row) THEN named ELSE image.refs[row]]
<1>1. /\ pc = this /\ pc' = next /\ input' = input
      /\ Check(\E row \in DOMAIN image.refs : RefersTo(row, old),
               GenerateError("MissingType", "reference")) = None
      /\ image' = [image EXCEPT !.refs = refs]
  BY StageStep DEF ReplaceAssemblyReference
<1>2. \E row \in DOMAIN image.refs : RefersTo(row, old)
  BY <1>1 DEF Check, None, GenerateError
<1>3. Names(named, identity)
  BY DEF Names
<1>4. DOMAIN image = Fields
  BY TemplateTables DEF Patched, ResourcePatched
<1>5. PICK n \in Nat : DOMAIN image.refs = 1..n
  BY TemplateTables DEF Patched, ReferencesPatched
<1>6. \E row \in DOMAIN image.refs : first(row)
  <2> DEFINE T == {row \in 1..n : RefersTo(row, old)}
  <2>1. T # {} /\ T \subseteq Nat
    BY <1>2, <1>5
  <2>2. PICK x \in T : \A y \in T : x <= y
    <3> HIDE DEF T
    <3> QED
      BY <2>1, W!Least
  <2>3. \A r \in 1..(x - 1) : r \in 1..n /\ ~ (x <= r)
    OBVIOUS
  <2>4. first(x)
    BY <2>2, <2>3
  <2> QED
    BY <2>4, <1>5
<1> HIDE DEF named
<1>7. /\ DOMAIN refs = DOMAIN image.refs
      /\ \A i \in DOMAIN image.refs : refs[i] = image.refs[i] \/ (RefersTo(i, old) /\ refs[i] = named)
      /\ \E i \in DOMAIN image.refs : RefersTo(i, old) /\ refs[i] = named
  BY <1>6
<1> HIDE DEF refs
<1>8. /\ DOMAIN image' = DOMAIN image
      /\ \A field \in Fields \ {"refs"} : image'[field] = image[field]
      /\ image'.refs = refs
  BY <1>1, <1>4 DEF Fields
<1> QED
  BY <1>1, <1>3, <1>7, <1>8

(* The references to the two SDK assemblies are given their identities. *)
LEMMA ReferenceStep ==
  ASSUME Checked, Patched, ReferToAct \/ ReferToCommon, pc' # "failed"
  PROVE  Patched'
<1>1. ACT_NAME # COMMON_NAME
  BY DEF ACT_NAME, COMMON_NAME
<1>2. ASSUME input' = input, DOMAIN image' = DOMAIN image,
             \A field \in Fields \ {"refs"} : image'[field] = image[field],
             pc \in {"refAct", "refCommon"}, pc' \in {"refCommon", "moduleRef"}
      PROVE  ResourcePatched' /\ ManifestPatched' /\ StringsPatched'
  <2>1. /\ image'.version = image.version /\ image'.slot = image.slot
        /\ image'.assembly = image.assembly /\ image'.module = image.module
        /\ image'.attributes = image.attributes
        /\ image'.moduleRefs = image.moduleRefs /\ image'.userStrings = image.userStrings
    BY <1>2 DEF Fields
  <2> QED
    BY <1>2, <2>1, StageOrder, ResourceKept, ManifestKept, StringsKept DEF Patched
<1>3. CASE ReferToAct
  <2>1. /\ pc = "refAct" /\ pc' = "refCommon" /\ input' = input
        /\ DOMAIN image' = DOMAIN image
        /\ \A field \in Fields \ {"refs"} : image'[field] = image[field]
        /\ DOMAIN image'.refs = DOMAIN image.refs
        /\ \A i \in DOMAIN image.refs :
             \/ image'.refs[i] = image.refs[i]
             \/ RefersTo(i, ACT_NAME) /\ Names(image'.refs[i], input.act.identity)
        /\ \E i \in DOMAIN image.refs :
             RefersTo(i, ACT_NAME) /\ Names(image'.refs[i], input.act.identity)
    BY <1>3, Referred DEF ReferToAct
  <2>2. "refCommon" \in PastRefAct /\ "refCommon" \notin PastRefCommon
    BY StageOrder
  <2>3. \A i : RefersTo(i, ACT_NAME)' = RefersTo(i, ACT_NAME)
    BY <2>1 DEF RefersTo
  <2>4. ReferencesPatched'
    BY <2>1, <2>2, <2>3 DEF Patched, ReferencesPatched
  <2> QED
    BY <1>2, <2>1, <2>4 DEF Patched
<1>4. CASE ReferToCommon
  <2>1. /\ pc = "refCommon" /\ pc' = "moduleRef" /\ input' = input
        /\ DOMAIN image' = DOMAIN image
        /\ \A field \in Fields \ {"refs"} : image'[field] = image[field]
        /\ DOMAIN image'.refs = DOMAIN image.refs
        /\ \A i \in DOMAIN image.refs :
             \/ image'.refs[i] = image.refs[i]
             \/ RefersTo(i, COMMON_NAME) /\ Names(image'.refs[i], input.common.identity)
        /\ \E i \in DOMAIN image.refs :
             RefersTo(i, COMMON_NAME) /\ Names(image'.refs[i], input.common.identity)
    BY <1>4, Referred DEF ReferToCommon
  <2>2. pc \in PastRefAct
    BY <2>1, StageOrder
  <2>3. \A i : RefersTo(i, ACT_NAME)' = RefersTo(i, ACT_NAME)
    BY <2>1 DEF RefersTo
  <2>4. \A i : RefersTo(i, COMMON_NAME)' = RefersTo(i, COMMON_NAME)
    BY <2>1 DEF RefersTo
  <2>5. \A i : RefersTo(i, ACT_NAME) => ~RefersTo(i, COMMON_NAME)
    BY <1>1 DEF RefersTo
  <2>6. ReferencesPatched'
    BY <2>1, <2>2, <2>3, <2>4, <2>5 DEF Patched, ReferencesPatched
  <2> QED
    BY <1>2, <2>1, <2>6 DEF Patched
<1> QED
  BY <1>3, <1>4

(* The P/Invoke module reference is given the name of the library. *)
LEMMA ModuleReferenceStep ==
  ASSUME Checked, Patched, ReplaceModuleReference, pc' # "failed"
  PROVE  Patched'
<1> DEFINE first(i) == /\ i \in DOMAIN image.moduleRefs
                       /\ image.moduleRefs[i] = NATIVE_PLACEHOLDER
                       /\ \A j \in 1..(i - 1) : image.moduleRefs[j] # NATIVE_PLACEHOLDER
           row == CHOOSE i \in DOMAIN image.moduleRefs :
                    /\ image.moduleRefs[i] = NATIVE_PLACEHOLDER
                    /\ \A j \in 1..(i - 1) : image.moduleRefs[j] # NATIVE_PLACEHOLDER
           found == Check(Contains(image.moduleRefs, NATIVE_PLACEHOLDER),
                          GenerateError("MissingMember", "module reference"))
           named == [image EXCEPT !.moduleRefs = ReplaceAt(@, row, input.config.native)]
<1>0. Stage("moduleRef", "nativeString", found, named)
  BY DEF ReplaceModuleReference
<1> HIDE DEF found, named
<1>1. /\ pc = "moduleRef" /\ pc' = "nativeString" /\ input' = input
      /\ found = None /\ image' = named
  BY <1>0, StageStep
<1>2. /\ DOMAIN image = Fields
      /\ image.moduleRefs = input.template.moduleRefs
      /\ image.moduleRefs \in Seq(ToSet(image.moduleRefs))
  BY <1>1, StageOrder, TemplateTables DEF Patched, ResourcePatched, StringsPatched
<1>3. first(row)
  <2> DEFINE T == {i \in 1..Len(image.moduleRefs) : image.moduleRefs[i] = NATIVE_PLACEHOLDER}
  <2>0. \E i \in 1..Len(image.moduleRefs) : image.moduleRefs[i] = NATIVE_PLACEHOLDER
    BY <1>1 DEF found, Contains, Check, None, GenerateError
  <2>1. T # {} /\ T \subseteq Nat
    BY <2>0
  <2>2. PICK x \in T : \A y \in T : x <= y
    <3> HIDE DEF T
    <3> QED
      BY <2>1, W!Least
  <2>3. DOMAIN image.moduleRefs = 1..Len(image.moduleRefs)
    BY <1>2
  <2>4. \A j \in 1..(x - 1) : j \in 1..Len(image.moduleRefs) /\ ~ (x <= j)
    OBVIOUS
  <2>5. first(x)
    BY <2>2, <2>3, <2>4
  <2> QED
    BY <2>5
<1> HIDE DEF row
<1>4. /\ DOMAIN image' = DOMAIN image
      /\ image'.moduleRefs = [image.moduleRefs EXCEPT ![row] = input.config.native]
      /\ \A field \in Fields \ {"moduleRefs"} : image'[field] = image[field]
  BY <1>1, <1>2 DEF named, ReplaceAt, Fields
<1>5. StringsPatched'
  <2>0. PICK k : k = row
    OBVIOUS
  <2>1. FirstNative(k) /\ k \in DOMAIN input.template.moduleRefs
    BY <2>0, <1>2, <1>3 DEF FirstNative
  <2>2. FirstNative(k)'
    BY <2>1, <1>1 DEF FirstNative
  <2>3. image'.userStrings = image.userStrings
    BY <1>4 DEF Fields
  <2>4. /\ pc' \in PastModuleRef /\ pc' \notin PastNative /\ pc' \notin PastTab
        /\ pc \notin PastNative /\ pc \notin PastTab
    BY <1>1, StageOrder
  <2> QED
    BY <1>1, <1>2, <1>4, <2>0, <2>1, <2>2, <2>3, <2>4 DEF Patched, StringsPatched
<1>6. ResourcePatched' /\ ManifestPatched' /\ ReferencesPatched'
  <2>1. /\ image'.version = image.version /\ image'.slot = image.slot
        /\ image'.assembly = image.assembly /\ image'.module = image.module
        /\ image'.attributes = image.attributes /\ image'.refs = image.refs
    BY <1>4 DEF Fields
  <2> QED
    BY <1>1, <1>4, <2>1, StageOrder, ResourceKept, ManifestKept, ReferencesKept DEF Patched
<1> QED
  BY <1>5, <1>6 DEF Patched

(* The user strings are given the names of the library and of the tab. *)
LEMMA UserStringStep ==
  ASSUME Checked, Patched, NameLibrary \/ NameTab, pc' # "failed"
  PROVE  Patched'
<1> DEFINE renamed(old, new) ==
             [i \in DOMAIN image.userStrings |->
                IF input.template.userStrings[i] = old THEN new ELSE image.userStrings[i]]
<1>1. DOMAIN image = Fields
  BY TemplateTables DEF Patched, ResourcePatched
<1>2. ASSUME NEW texts, image' = [image EXCEPT !.userStrings = texts]
      PROVE  /\ DOMAIN image' = DOMAIN image
             /\ image'.userStrings = texts
             /\ \A field \in Fields \ {"userStrings"} : image'[field] = image[field]
  BY <1>1, <1>2 DEF Fields
<1>3. ASSUME input' = input, DOMAIN image' = DOMAIN image,
             \A field \in Fields \ {"userStrings"} : image'[field] = image[field],
             pc \in {"nativeString", "tabString"}, pc' \in {"tabString", "emit"}
      PROVE  /\ ResourcePatched' /\ ManifestPatched' /\ ReferencesPatched'
             /\ image'.moduleRefs = image.moduleRefs
             /\ pc \in PastModuleRef /\ pc' \in PastModuleRef
  <2>1. /\ image'.version = image.version /\ image'.slot = image.slot
        /\ image'.assembly = image.assembly /\ image'.module = image.module
        /\ image'.attributes = image.attributes /\ image'.refs = image.refs
        /\ image'.moduleRefs = image.moduleRefs
    BY <1>3 DEF Fields
  <2> QED
    BY <1>3, <2>1, StageOrder, ResourceKept, ManifestKept, ReferencesKept DEF Patched
<1>4. NATIVE_PLACEHOLDER # TAB_NAME_PLACEHOLDER
  BY DEF NATIVE_PLACEHOLDER, TAB_NAME_PLACEHOLDER
<1>5. CASE NameLibrary
  <2>1. /\ pc = "nativeString" /\ pc' = "tabString" /\ input' = input
        /\ image' = [image EXCEPT !.userStrings = renamed(NATIVE_PLACEHOLDER, input.config.native)]
    BY <1>5, StageStep DEF NameLibrary, ReplaceUserString
  <2> HIDE DEF renamed
  <2>2. /\ DOMAIN image' = DOMAIN image
        /\ image'.userStrings = renamed(NATIVE_PLACEHOLDER, input.config.native)
        /\ \A field \in Fields \ {"userStrings"} : image'[field] = image[field]
    BY <1>2, <2>1
  <2>3. /\ pc \notin PastNative /\ pc \notin PastTab /\ pc' \in PastNative /\ pc' \notin PastTab
    BY <2>1, StageOrder
  <2>4. \A i : FirstNative(i)' = FirstNative(i)
    BY <2>1 DEF FirstNative
  <2>5. /\ ResourcePatched' /\ ManifestPatched' /\ ReferencesPatched'
        /\ image'.moduleRefs = image.moduleRefs
        /\ pc \in PastModuleRef /\ pc' \in PastModuleRef
    BY <1>3, <2>1, <2>2
  <2>6. StringsPatched'
    BY <2>1, <2>2, <2>3, <2>4, <2>5 DEF renamed, Patched, StringsPatched
  <2> QED
    BY <2>5, <2>6 DEF Patched
<1>6. CASE NameTab
  <2>1. /\ pc = "tabString" /\ pc' = "emit" /\ input' = input
        /\ image' = [image EXCEPT !.userStrings = renamed(TAB_NAME_PLACEHOLDER, input.config.tab)]
    BY <1>6, StageStep DEF NameTab, ReplaceUserString
  <2> HIDE DEF renamed
  <2>2. /\ DOMAIN image' = DOMAIN image
        /\ image'.userStrings = renamed(TAB_NAME_PLACEHOLDER, input.config.tab)
        /\ \A field \in Fields \ {"userStrings"} : image'[field] = image[field]
    BY <1>2, <2>1
  <2>3. /\ pc \in PastNative /\ pc \notin PastTab /\ pc' \in PastNative /\ pc' \in PastTab
    BY <2>1, StageOrder
  <2>4. \A i : FirstNative(i)' = FirstNative(i)
    BY <2>1 DEF FirstNative
  <2>5. /\ ResourcePatched' /\ ManifestPatched' /\ ReferencesPatched'
        /\ image'.moduleRefs = image.moduleRefs
        /\ pc \in PastModuleRef /\ pc' \in PastModuleRef
    BY <1>3, <2>1, <2>2
  <2>6. StringsPatched'
    BY <1>4, <2>1, <2>2, <2>3, <2>4, <2>5 DEF renamed, Patched, StringsPatched
  <2> QED
    BY <2>5, <2>6 DEF Patched
<1> QED
  BY <1>5, <1>6

(* Every step leaves the image as it is patched at the stage it leads to. *)
LEMMA PatchedStep ==
  ASSUME StageInv, [Next]_vars
  PROVE  /\ pc' # "failed" => Patched'
         /\ pc' = "written" => file' = image'
<1>1. CASE FindTarget \/ ValidateConfig \/ ParseAct \/ ParseCommon \/ ValidateContracts
           \/ Identities \/ ParseTemplate \/ Emit
  <2>1. PICK step \in {<<"target", "config">>, <<"config", "act">>, <<"act", "common">>,
                       <<"common", "contracts">>, <<"contracts", "identities">>,
                       <<"identities", "resource">>, <<"template", "assembly">>,
                       <<"emit", "write">>} :
          \E f : Stage(step[1], step[2], f, image)
    BY <1>1 DEF FindTarget, ValidateConfig, ParseAct, ParseCommon, ValidateContracts, Identities,
                ParseTemplate, Emit
  <2>2. /\ pc = step[1] /\ pc' \in {step[2], "failed"}
        /\ input' = input /\ image' = image
    BY <2>1, StageStep
  <2>3. pc # "failed" /\ pc' # "written"
    BY <2>1, <2>2
  <2>4. pc' # "failed" => SamePast
    BY <2>1, <2>2, StageOrder DEF SamePast
  <2> QED
    BY <2>2, <2>3, <2>4, PatchedKept DEF StageInv
<1>2. CASE ApplyVersionResource
  BY <1>2, StageStep, ResourceStep DEF StageInv, ApplyVersionResource
<1>3. CASE ReplaceAssemblyName
  BY <1>3, StageStep, ManifestStep DEF StageInv, ReplaceAssemblyName
<1>4. CASE ApplyAssemblyAttributes
  BY <1>4, StageStep, AttributesStep DEF StageInv, ApplyAssemblyAttributes
<1>5. CASE ReferToAct \/ ReferToCommon
  <2>1. pc # "failed" /\ pc' # "written"
    BY <1>5, StageFaults, StageStep
  <2> QED
    BY <1>5, <2>1, ReferenceStep DEF StageInv
<1>6. CASE ReplaceModuleReference
  <2>1. pc # "failed" /\ pc' # "written"
    BY <1>6, StageFaults, StageStep
  <2> QED
    BY <1>6, <2>1, ModuleReferenceStep DEF StageInv
<1>7. CASE NameLibrary \/ NameTab
  <2>1. pc # "failed" /\ pc' # "written"
    BY <1>7, StageFaults, StageStep
  <2> QED
    BY <1>7, <2>1, UserStringStep DEF StageInv
<1>8. CASE LibraryFails
  BY <1>8 DEF LibraryFails
<1>9. CASE WriteFile
  <2>1. /\ pc = "write" /\ input' = input /\ image' = image
        /\ (pc' = "written" /\ file' = image) \/ pc' = "failed"
    BY <1>9 DEF WriteFile
  <2>2. pc' # "failed" => SamePast
    BY <2>1, StageOrder DEF SamePast
  <2> QED
    BY <2>1, <2>2, PatchedKept DEF StageInv
<1>10. CASE UNCHANGED vars
  <2>1. pc' = pc /\ input' = input /\ image' = image /\ file' = file
    BY <1>10 DEF vars
  <2>2. SamePast
    BY <2>1 DEF SamePast
  <2> QED
    BY <2>1, <2>2, PatchedKept DEF StageInv
<1> QED
  BY <1>1, <1>2, <1>3, <1>4, <1>5, <1>6, <1>7, <1>8, <1>9, <1>10 DEF Next

(* A build starts with the template and nothing checked. *)
LEMMA StageInit == Init => StageInv
<1> SUFFICES ASSUME Init
             PROVE  StageInv
  OBVIOUS
<1>1. pc = "target" /\ input \in Inputs /\ image = input.template /\ error = None
  BY DEF Init
<1>2. Checked
  BY <1>1, FaultKinds, StageOrder DEF Checked, ConfigFaults
<1>3. /\ pc \notin PastResource /\ pc \notin PastAssembly /\ pc \notin PastAttributes
      /\ pc \notin PastRefAct /\ pc \notin PastRefCommon /\ pc \notin PastModuleRef
      /\ pc \notin PastNative /\ pc \notin PastTab
  BY <1>1, StageOrder
<1>4. ResourcePatched /\ ManifestPatched /\ ReferencesPatched /\ StringsPatched
  BY <1>1, <1>3 DEF ResourcePatched, ManifestPatched, ReferencesPatched, StringsPatched
<1> QED
  BY <1>1, <1>2, <1>4 DEF StageInv, Patched

(* Whatever build_shim is given, a stage is reached only past the checks before it, the image
   then holds the template's tables with exactly the patches of the stages it went through, and
   a shim that is written is that image (generate.rs build_shim, from validate_config to the
   write). *)
THEOREM StagesChecked == Spec => []StageInv
<1>1. StageInv /\ [Next]_vars => StageInv'
  BY CheckedStep, PatchedStep DEF StageInv
<1> QED
  BY StageInit, <1>1, PTL DEF Spec

(* A shim is patched only for SDK assemblies in which every delegate its handlers subscribe to
   takes their arguments, and which have every repository method its queries call: nothing the
   stub binds to at run time is missed by validate_contracts. *)
THEOREM StubsBind == Spec => []ContractsCover
<1>1. StageInv => ContractsCover
  <2> SUFFICES ASSUME StageInv, pc \notin {"target", "config", "act", "common", "contracts", "failed"}
               PROVE  /\ \A event \in DOMAIN HandlerArities :
                           /\ event \in DOMAIN input.common.events
                           /\ Offers(input.common,
                                Calls(input.common.events[event], "Invoke", HandlerArities[event]))
                      /\ \A call \in RepositoryCalls : Offers(input.common, call)
    BY DEF ContractsCover
  <2>1. pc \in PastContracts
    BY DEF StageInv, Checked, PastConfig
  <2>2. ContractFault(input.act, input.common) = None
    BY <2>1 DEF StageInv, Checked
  <2> QED
    BY <2>2, ContractsOffer
<1> QED
  BY <1>1, StagesChecked, PTL

-------------------------------------------------------------------------------
(* The version resource: a sum over the strings of a table, each of them short. *)

(* The sum of a function over a finite set, element by element. *)
Pick(s) == CHOOSE x \in s : TRUE

Sums(g, base, f, d) ==
  g = [s \in SUBSET d |-> IF s = {} THEN base ELSE f[Pick(s)] + g[s \ {Pick(s)}]]

(* A set with one element less. *)
LEMMA AnyOf ==
  ASSUME NEW n \in Nat, NEW s, IsFiniteSet(s), Cardinality(s) = n + 1
  PROVE  /\ Pick(s) \in s
         /\ IsFiniteSet(s \ {Pick(s)}) /\ Cardinality(s \ {Pick(s)}) = n
<1>1. s # {}
  BY FS_EmptySet
<1>2. Pick(s) \in s
  BY <1>1 DEF Pick
<1> QED
  BY <1>2, FS_RemoveElement

(* There is a function of the subsets that the sum's recursion defines. *)
LEMMA SumExists ==
  ASSUME NEW base, NEW f, NEW d, IsFiniteSet(d)
  PROVE  \E g : Sums(g, base, f, d)
<1> DEFINE Small(m) == {s \in SUBSET d : Cardinality(s) <= m}
           Upto(g, m) == g = [s \in Small(m) |->
                                IF s = {} THEN base ELSE f[Pick(s)] + g[s \ {Pick(s)}]]
           N == Cardinality(d)
           T == {m \in 0..N : \E g : Upto(g, m)}
<1>1. N \in Nat
  BY FS_CardinalityType
<1>2. \A s \in SUBSET d : IsFiniteSet(s) /\ Cardinality(s) \in Nat /\ Cardinality(s) <= N
  BY FS_Subset, FS_CardinalityType
<1>3. \A s \in SUBSET d : Cardinality(s) = 0 <=> s = {}
  BY <1>2, FS_EmptySet
<1>4. 0 \in T
  <2> DEFINE g == [s \in Small(0) |-> base]
  <2>1. \A s \in Small(0) : s = {}
    BY <1>2, <1>3
  <2>2. Upto(g, 0)
    BY <2>1
  <2> HIDE DEF g, Upto
  <2> QED
    BY <1>1, <2>2
<1>5. ASSUME NEW m \in 0..(N - 1), m \in T
      PROVE  m + 1 \in T
  <2>1. PICK g : Upto(g, m)
    BY <1>5
  <2> DEFINE h == [s \in Small(m + 1) |->
                     IF Cardinality(s) = m + 1 THEN f[Pick(s)] + g[s \ {Pick(s)}] ELSE g[s]]
  <2>2. ASSUME NEW s \in Small(m + 1)
        PROVE  h[s] = IF s = {} THEN base ELSE f[Pick(s)] + h[s \ {Pick(s)}]
    <3>1. m \in Nat /\ m + 1 \in Nat
      BY <1>1
    <3>2. IsFiniteSet(s) /\ Cardinality(s) \in Nat /\ s \in SUBSET d
      BY <1>2
    <3>3. s # {} => /\ Pick(s) \in s /\ Cardinality(s \ {Pick(s)}) = Cardinality(s) - 1
                    /\ Cardinality(s) # 0
      <4> SUFFICES ASSUME s # {}
                   PROVE  /\ Pick(s) \in s /\ Cardinality(s \ {Pick(s)}) = Cardinality(s) - 1
                          /\ Cardinality(s) # 0
        OBVIOUS
      <4>1. Cardinality(s) # 0
        BY <1>3, <3>2
      <4>2. Cardinality(s) - 1 \in Nat /\ Cardinality(s) = (Cardinality(s) - 1) + 1
        BY <3>2, <4>1
      <4> QED
        BY <3>2, <4>1, <4>2, AnyOf
    <3>4. s # {} => s \ {Pick(s)} \in Small(m) /\ s \ {Pick(s)} \in Small(m + 1)
                    /\ Cardinality(s \ {Pick(s)}) # m + 1
      BY <3>1, <3>2, <3>3
    <3>5. CASE Cardinality(s) = m + 1
      <4>1. s # {}
        BY <1>3, <3>1, <3>2, <3>5
      <4>2. h[s \ {Pick(s)}] = g[s \ {Pick(s)}]
        BY <3>4, <4>1
      <4> QED
        BY <3>5, <4>1, <4>2
    <3>6. CASE Cardinality(s) # m + 1
      <4>1. s \in Small(m) /\ h[s] = g[s]
        BY <3>1, <3>2, <3>6
      <4>2. g[s] = IF s = {} THEN base ELSE f[Pick(s)] + g[s \ {Pick(s)}]
        BY <2>1, <4>1
      <4>3. s # {} => h[s \ {Pick(s)}] = g[s \ {Pick(s)}]
        BY <3>4
      <4> QED
        BY <4>1, <4>2, <4>3
    <3> QED
      BY <3>5, <3>6
  <2>3. h = [s \in Small(m + 1) |-> h[s]]
    OBVIOUS
  <2>4. Upto(h, m + 1)
    <3> HIDE DEF h, Small
    <3> QED
      BY <2>2, <2>3
  <2>5. m + 1 \in 0..N
    BY <1>1
  <2> HIDE DEF h, Upto
  <2> QED
    BY <2>4, <2>5
<1>6. \A m \in 0..N : m \in T
  <2> HIDE DEF T, N
  <2> QED
    BY <1>1, <1>4, <1>5, W!Induction
<1>7. PICK g : Upto(g, N)
  <2>1. N \in 0..N
    BY <1>1
  <2> HIDE DEF N, Upto
  <2> QED
    BY <1>6, <2>1
<1>8. Small(N) = SUBSET d
  BY <1>2
<1> QED
  BY <1>7, <1>8 DEF Sums

(* It is what the fold of the library computes. *)
LEMMA SumDefined ==
  ASSUME NEW base, NEW f, IsFiniteSet(DOMAIN f)
  PROVE  \E g : Sums(g, base, f, DOMAIN f) /\ FoldFunction(+, base, f) = g[DOMAIN f]
<1> DEFINE d == DOMAIN f
           G(h) == [s \in SUBSET d |-> IF s = {} THEN base ELSE f[Pick(s)] + h[s \ {Pick(s)}]]
           g == CHOOSE h : h = G(h)
<1>1. \E h : h = G(h)
  <2>1. PICK h : Sums(h, base, f, d)
    BY SumExists
  <2> QED
    BY <2>1 DEF Sums
<1>2. g = G(g)
  <2> HIDE DEF G
  <2> QED
    BY <1>1
<1>3. FoldFunction(+, base, f) = g[d]
  BY DEF FoldFunction, FoldFunctionOnSet, MapThenFoldSet, Pick
<1>4. Sums(g, base, f, d)
  <2> HIDE DEF g
  <2> QED
    BY <1>2 DEF Sums
<1> HIDE DEF g
<1> QED
  BY <1>3, <1>4

(* A sum of numbers that are small is small. *)
LEMMA SumBounded ==
  ASSUME NEW base \in Nat, NEW k \in Nat, NEW f, IsFiniteSet(DOMAIN f),
         \A x \in DOMAIN f : f[x] \in 0..k
  PROVE  FoldFunction(+, base, f) \in 0..(base + k * Cardinality(DOMAIN f))
<1> DEFINE d == DOMAIN f
           N == Cardinality(d)
<1>1. PICK g : Sums(g, base, f, d) /\ FoldFunction(+, base, f) = g[d]
  BY SumDefined
<1>2. N \in Nat
  BY FS_CardinalityType
<1> DEFINE T == {m \in 0..N : \A s \in SUBSET d : Cardinality(s) = m => g[s] \in 0..(base + k * m)}
<1>3. \A s \in SUBSET d : g[s] = IF s = {} THEN base ELSE f[Pick(s)] + g[s \ {Pick(s)}]
  BY <1>1 DEF Sums
<1>4. 0 \in T
  <2>1. \A s \in SUBSET d : Cardinality(s) = 0 => s = {}
    BY FS_Subset, FS_EmptySet
  <2>2. g[{}] = base
    BY <1>3
  <2>3. base \in 0..(base + k * 0) /\ 0 \in 0..N
    BY <1>2
  <2> QED
    BY <2>1, <2>2, <2>3
<1>5. ASSUME NEW m \in 0..(N - 1), m \in T
      PROVE  m + 1 \in T
  <2>1. m \in Nat /\ m + 1 \in 0..N
    BY <1>2
  <2>2. ASSUME NEW s \in SUBSET d, Cardinality(s) = m + 1
        PROVE  g[s] \in 0..(base + k * (m + 1))
    <3>1. /\ Pick(s) \in s /\ s \ {Pick(s)} \in SUBSET d /\ Cardinality(s \ {Pick(s)}) = m
      BY <2>1, <2>2, FS_Subset, AnyOf
    <3>2. g[s \ {Pick(s)}] \in 0..(base + k * m)
      BY <1>5, <3>1
    <3>3. f[Pick(s)] \in 0..k
      BY <3>1
    <3>4. g[s] = f[Pick(s)] + g[s \ {Pick(s)}]
      BY <1>3, <3>1
    <3>5. k * (m + 1) = k * m + k
      BY <2>1
    <3> QED
      BY <2>1, <3>2, <3>3, <3>4, <3>5
  <2> QED
    BY <2>1, <2>2
<1>6. \A m \in 0..N : m \in T
  <2> HIDE DEF T, N
  <2> QED
    BY <1>2, <1>4, <1>5, W!Induction
<1>7. N \in T
  <2> HIDE DEF T
  <2> QED
    BY <1>2, <1>6
<1> QED
  BY <1>1, <1>7

-------------------------------------------------------------------------------
(* Texts: a width is the sum of the units of the atoms.                      *)

(* Width as the fold that FoldLemmas is about. *)
LEMMA WidthIsFold == \A text : Width(text) = W!Fold(0, text)
BY DEF Width, W!Fold, Plus, FoldLeft, W!FoldLeft, MapThenFoldSet, W!MapThenFoldSet, Max, W!Max

(* A width is a number; where every atom is one unit it is the length. *)
LEMMA WidthNat ==
  ASSUME NEW S, NEW text \in Seq(S), \A i \in DOMAIN text : Units(text[i]) \in Nat
  PROVE  /\ Width(text) \in Nat
         /\ (\A i \in DOMAIN text : Units(text[i]) = 1) => Width(text) = Len(text)
<1> DEFINE n == Len(text)
           first(m) == [i \in 1..m |-> text[i]]
           T == {m \in 0..n : /\ Width(first(m)) \in Nat
                              /\ (\A i \in 1..m : Units(text[i]) = 1) => Width(first(m)) = m}
<1>1. 0 \in T
  <2>1. first(0) = <<>>
    OBVIOUS
  <2>2. Width(first(0)) = 0
    BY <2>1, WidthIsFold, W!FoldEmpty
  <2> QED
    BY <2>2
<1>2. ASSUME NEW m \in 0..(n - 1), m \in T
      PROVE  m + 1 \in T
  <2>1. m \in Nat /\ m + 1 \in 1..n /\ m + 1 \in 0..n /\ m + 1 \in DOMAIN text
    OBVIOUS
  <2>2. /\ DOMAIN first(m) = 1..m /\ DOMAIN first(m + 1) = 1..(m + 1)
        /\ \A i \in 1..m : first(m + 1)[i] = first(m)[i]
        /\ first(m + 1)[m + 1] = text[m + 1]
    BY <2>1
  <2> HIDE DEF first
  <2>3. Width(first(m + 1)) = Width(first(m)) + Units(text[m + 1])
    BY <2>1, <2>2, WidthIsFold, W!FoldStep DEF Plus
  <2>4. Width(first(m)) \in Nat /\ Units(text[m + 1]) \in Nat
    BY <1>2, <2>1
  <2>5. (\A i \in 1..(m + 1) : Units(text[i]) = 1) =>
           Width(first(m)) = m /\ Units(text[m + 1]) = 1
    BY <1>2, <2>1
  <2> QED
    BY <2>1, <2>3, <2>4, <2>5
<1>3. n \in Nat /\ n \in 0..n /\ DOMAIN text = 1..n /\ first(n) = text
  OBVIOUS
<1> HIDE DEF T, n
<1>4. \A m \in 0..n : m \in T
  BY <1>1, <1>2, <1>3, W!Induction
<1>5. n \in T
  BY <1>3, <1>4
<1> HIDE DEF first
<1> QED
  BY <1>3, <1>5 DEF T, n

-------------------------------------------------------------------------------
(* Decimal numerals: the recursion of Decimal, unrolled.                     *)

(* The digits of n over those of a tenth of it, up to n: what Decimal computes. *)
Digits(g, n) ==
  IF n < 10 THEN <<DigitOf[n + 1]>> ELSE Append(g[n \div 10], DigitOf[(n % 10) + 1])
DigitsUpTo(g, n) == g = [m \in 0..n |-> Digits(g, m)]

(* A number is ten times its tenth and the last digit. *)
LEMMA Tenth ==
  ASSUME NEW n \in Nat
  PROVE  /\ n \div 10 \in 0..n
         /\ n % 10 \in 0..9
         /\ n = 10 * (n \div 10) + (n % 10)
         /\ (n >= 10 => n \div 10 \in 1..(n - 1))
OBVIOUS

(* Two such functions agree as far as both go. *)
LEMMA DigitsAgree ==
  ASSUME NEW n \in Nat, NEW k \in Nat, n <= k,
         NEW g, DigitsUpTo(g, n), NEW h, DigitsUpTo(h, k)
  PROVE  \A m \in 0..n : g[m] = h[m]
<1> DEFINE Bad == {m \in 0..n : g[m] # h[m]}
<1> SUFFICES ASSUME Bad # {}
             PROVE  FALSE
  OBVIOUS
<1>1. PICK m \in Bad : \A y \in Bad : m <= y
  <2>1. Bad \subseteq Nat
    OBVIOUS
  <2> HIDE DEF Bad
  <2> QED
    BY <2>1, W!Least
<1>2. m \in 0..n /\ m \in 0..k /\ m \in Nat
  OBVIOUS
<1>3. g[m] = Digits(g, m) /\ h[m] = Digits(h, m)
  BY <1>2 DEF DigitsUpTo
<1>4. m >= 10 => g[m \div 10] = h[m \div 10]
  <2> SUFFICES ASSUME m >= 10
               PROVE  g[m \div 10] = h[m \div 10]
    OBVIOUS
  <2>1. m \div 10 \in 1..(m - 1)
    BY <1>2, Tenth
  <2>2. m \div 10 \in 0..n /\ ~ (m <= m \div 10)
    BY <1>2, <2>1
  <2> QED
    BY <1>1, <2>2
<1>5. g[m] = h[m]
  BY <1>2, <1>3, <1>4 DEF Digits
<1> QED
  BY <1>5

(* There is one up to every n. *)
LEMMA DigitsExist ==
  ASSUME NEW n \in Nat
  PROVE  \E g : DigitsUpTo(g, n)
<1> DEFINE T == {m \in 0..n : \E g : DigitsUpTo(g, m)}
<1>1. 0 \in T
  <2> DEFINE g == [m \in 0..0 |-> <<DigitOf[m + 1]>>]
  <2>1. \A m \in 0..0 : g[m] = Digits(g, m)
    BY DEF Digits
  <2>2. DigitsUpTo(g, 0)
    BY <2>1 DEF DigitsUpTo
  <2> HIDE DEF g
  <2> QED
    BY <2>2
<1>2. ASSUME NEW m \in 0..(n - 1), m \in T
      PROVE  m + 1 \in T
  <2>1. PICK g : DigitsUpTo(g, m)
    BY <1>2
  <2> DEFINE h == [i \in 0..(m + 1) |-> IF i = m + 1 THEN Digits(g, m + 1) ELSE g[i]]
  <2>2. ASSUME NEW i \in 0..(m + 1)
        PROVE  h[i] = Digits(h, i)
    <3>1. i >= 10 => i \div 10 \in 0..m /\ i \div 10 # m + 1
      BY Tenth
    <3>2. i >= 10 => h[i \div 10] = g[i \div 10]
      BY <3>1
    <3>3. Digits(h, i) = Digits(g, i)
      <4> HIDE DEF h
      <4> QED
        BY <3>2 DEF Digits
    <3>4. i # m + 1 => g[i] = Digits(g, i)
      BY <2>1 DEF DigitsUpTo
    <3> QED
      BY <3>3, <3>4
  <2>3. h = [i \in 0..(m + 1) |-> h[i]]
    OBVIOUS
  <2>4. DigitsUpTo(h, m + 1)
    <3> HIDE DEF h
    <3> QED
      BY <2>2, <2>3 DEF DigitsUpTo
  <2> HIDE DEF h
  <2> QED
    BY <2>4
<1> HIDE DEF T
<1>3. \A m \in 0..n : m \in T
  BY <1>1, <1>2, W!Induction
<1>4. n \in T
  BY <1>3
<1> QED
  BY <1>4 DEF T

(* So Decimal does what its definition says: its recursion is well founded. *)
LEMMA DecimalDefined == \A n \in Nat : Decimal[n] = Digits(Decimal, n)
<1> DEFINE F == [n \in Nat |-> (CHOOSE g : DigitsUpTo(g, n))[n]]
           G(f) == [n \in Nat |-> IF n < 10 THEN <<DigitOf[n + 1]>>
                                  ELSE Append(f[n \div 10], DigitOf[(n % 10) + 1])]
<1>1. ASSUME NEW n \in Nat
      PROVE  F[n] = Digits(F, n)
  <2>1. PICK g : DigitsUpTo(g, n) /\ F[n] = g[n]
    BY DigitsExist
  <2>2. ASSUME n >= 10
        PROVE  F[n \div 10] = g[n \div 10]
    <3>1. n \div 10 \in Nat /\ n \div 10 <= n
      BY <2>2, Tenth
    <3>2. PICK k \in Nat : k = n \div 10
      BY <3>1
    <3>3. PICK h : DigitsUpTo(h, k) /\ F[k] = h[k]
      BY DigitsExist
    <3>4. h[k] = g[k]
      BY <2>1, <3>1, <3>2, <3>3, DigitsAgree
    <3> QED
      BY <3>2, <3>3, <3>4
  <2>3. g[n] = Digits(g, n)
    BY <2>1 DEF DigitsUpTo
  <2> HIDE DEF F
  <2> QED
    BY <2>1, <2>2, <2>3 DEF Digits
<1>2. F = G(F)
  <2>1. F = [n \in Nat |-> F[n]]
    OBVIOUS
  <2>2. \A n \in Nat : F[n] = IF n < 10 THEN <<DigitOf[n + 1]>>
                              ELSE Append(F[n \div 10], DigitOf[(n % 10) + 1])
    <3> HIDE DEF F
    <3> QED
      BY <1>1 DEF Digits
  <2> HIDE DEF F
  <2> QED
    BY <2>1, <2>2
<1>3. Decimal = CHOOSE f : f = G(f)
  BY DEF Decimal
<1>4. Decimal = G(Decimal)
  <2> HIDE DEF F, G
  <2> QED
    BY <1>2, <1>3
<1> QED
  BY <1>4 DEF Digits

(* The characters of a version: digits and dots. *)
Ten == DOMAIN ValueOf

(* The ten digits, none of which is a dot. *)
LEMMA TenDigits ==
  /\ Ten = {"0", "1", "2", "3", "4", "5", "6", "7", "8", "9"}
  /\ "." \notin Ten
  /\ \A n \in 0..9 : DigitOf[n + 1] \in Ten
<1>1. ToSet(DigitOf) = {"0", "1", "2", "3", "4", "5", "6", "7", "8", "9"}
  BY DEF DigitOf, ToSet
<1>2. Ten = ToSet(DigitOf)
  BY DEF Ten, ValueOf
<1>3. \A n \in 0..9 : DigitOf[n + 1] \in {"0", "1", "2", "3", "4", "5", "6", "7", "8", "9"}
  BY DEF DigitOf
<1> QED
  BY <1>1, <1>2, <1>3

(* The numerals of the numbers below k have at most that many places. *)
Places(k, places) ==
  \A n \in 0..(k - 1) : Decimal[n] \in Seq(Ten) /\ Len(Decimal[n]) \in 1..places

(* One digit writes the numbers below ten. *)
LEMMA OnePlace == Places(10, 1)
<1> SUFFICES ASSUME NEW n \in 0..9
             PROVE  Decimal[n] \in Seq(Ten) /\ Len(Decimal[n]) \in 1..1
  BY DEF Places
<1>1. Decimal[n] = <<DigitOf[n + 1]>>
  <2>1. n \in Nat /\ n < 10
    OBVIOUS
  <2>2. Decimal[n] = Digits(Decimal, n)
    BY <2>1, DecimalDefined
  <2> QED
    BY <2>1, <2>2 DEF Digits
<1>2. DigitOf[n + 1] \in Ten
  BY TenDigits
<1> QED
  BY <1>1, <1>2

(* One more place holds ten times as many numbers. *)
LEMMA OneMorePlace ==
  ASSUME NEW k \in Nat, NEW places \in Nat \ {0}, Places(k, places),
         NEW j \in Nat, j = 10 * k, NEW more \in Nat, more = places + 1
  PROVE  Places(j, more)
<1> SUFFICES ASSUME NEW n \in 0..(j - 1)
             PROVE  Decimal[n] \in Seq(Ten) /\ Len(Decimal[n]) \in 1..more
  BY DEF Places
<1>1. CASE n < 10
  <2>1. n \in 0..(10 - 1)
    BY <1>1
  <2>2. Decimal[n] \in Seq(Ten) /\ Len(Decimal[n]) \in 1..1
    BY <2>1, OnePlace DEF Places
  <2>3. 1..1 \subseteq 1..more
    OBVIOUS
  <2> QED
    BY <2>2, <2>3
<1>2. CASE n >= 10
  <2>1. n \div 10 \in 0..(k - 1) /\ n % 10 \in 0..9
    <3>1. n \div 10 \in Nat /\ n % 10 \in 0..9 /\ n = 10 * (n \div 10) + (n % 10)
      BY Tenth
    <3> QED
      BY <3>1
  <2>2. Decimal[n] = Append(Decimal[n \div 10], DigitOf[(n % 10) + 1])
    <3>1. n \in Nat /\ ~ (n < 10)
      BY <1>2
    <3>2. Decimal[n] = Digits(Decimal, n)
      BY <3>1, DecimalDefined
    <3> QED
      BY <3>1, <3>2 DEF Digits
  <2>3. DigitOf[(n % 10) + 1] \in Ten
    BY <2>1, TenDigits
  <2>4. Decimal[n \div 10] \in Seq(Ten) /\ Len(Decimal[n \div 10]) \in 1..places
    BY <2>1 DEF Places
  <2> QED
    BY <2>2, <2>3, <2>4
<1> QED
  BY <1>1, <1>2

(* A part of a version has up to five digits. *)
LEMMA DecimalShape ==
  ASSUME NEW n \in 0..MaxPart
  PROVE  Decimal[n] \in Seq(Ten) /\ Len(Decimal[n]) \in 1..5
<1>1. PICK a \in Nat, b \in Nat, c \in Nat, d \in Nat :
        a = 10 * 10 /\ b = 10 * a /\ c = 10 * b /\ d = 10 * c
  OBVIOUS
<1>2. PICK p \in Nat \ {0}, q \in Nat \ {0}, r \in Nat \ {0}, s \in Nat \ {0} :
        p = 1 + 1 /\ q = p + 1 /\ r = q + 1 /\ s = r + 1 /\ s = 5
  OBVIOUS
<1>3. Places(a, p)
  <2>1. a = 10 * 10 /\ p = 1 + 1
    BY <1>1, <1>2, Zenon
  <2> QED
    BY OnePlace, <2>1, OneMorePlace
<1>4. Places(b, q)
  <2>1. b = 10 * a /\ q = p + 1
    BY <1>1, <1>2, Zenon
  <2> QED
    BY <1>3, <2>1, OneMorePlace, Zenon
<1>5. Places(c, r)
  <2>1. c = 10 * b /\ r = q + 1
    BY <1>1, <1>2, Zenon
  <2> QED
    BY <1>4, <2>1, OneMorePlace, Zenon
<1>6. Places(d, s)
  <2>1. d = 10 * c /\ s = r + 1
    BY <1>1, <1>2, Zenon
  <2> QED
    BY <1>5, <2>1, OneMorePlace, Zenon
<1>7. n \in 0..(d - 1)
  <2>1. d = 100000
    BY <1>1, SMTT(30)
  <2>2. PICK m \in Nat : m = MaxPart /\ m < d
    BY <2>1 DEF MaxPart
  <2>3. n \in 0..m
    BY <2>2
  <2>4. m < d
    BY <2>2
  <2> QED
    BY <2>3, <2>4
<1>8. Decimal[n] \in Seq(Ten) /\ Len(Decimal[n]) \in 1..s
  BY <1>6, <1>7 DEF Places
<1>9. s = 5
  BY <1>2, Zenon
<1> QED
  BY <1>8, <1>9, Zenon

(* Two texts with a dot between them. *)
LEMMA Dotted ==
  ASSUME NEW S, "." \in S, NEW p \in Seq(S), NEW q \in Seq(S), NEW text, text = p \o <<".">> \o q
  PROVE  /\ text \in Seq(S)
         /\ Len(text) = Len(p) + 1 + Len(q)
         /\ \A k \in 1..Len(p) : text[k] = p[k]
         /\ text[Len(p) + 1] = "."
         /\ \A k \in 1..Len(q) : text[Len(p) + 1 + k] = q[k]
<1>1. PICK r : r = p \o <<".">>
  OBVIOUS
<1>2. /\ r \in Seq(S) /\ DOMAIN r = 1..(Len(p) + 1)
      /\ \A k \in 1..Len(p) : r[k] = p[k]
      /\ r[Len(p) + 1] = "."
  BY <1>1, OneMore
<1>3. Len(p) \in Nat /\ Len(r) = Len(p) + 1
  BY <1>2
<1>4. text = r \o q
  BY <1>1
<1> QED
  BY <1>2, <1>3, <1>4

(* What a formatted version is made of. *)
VersionChars == Ten \cup {"."}

(* The parts of a version, and the dots between them, lie one after the other. *)
FirstChar(v, i) ==
  CASE i = 1 -> 1
    [] i = 2 -> Len(Decimal[v[1]]) + 2
    [] i = 3 -> Len(Decimal[v[1]]) + Len(Decimal[v[2]]) + 3
    [] i = 4 -> Len(Decimal[v[1]]) + Len(Decimal[v[2]]) + Len(Decimal[v[3]]) + 4

(* format_version writes the four numerals with three dots between them. *)
LEMMA FormatShape ==
  ASSUME NEW v \in [1..4 -> 0..MaxPart]
  PROVE  /\ format_version(v) \in Seq(VersionChars)
         /\ Len(format_version(v)) \in 0..23
         /\ \A i \in 1..3 : format_version(v)[FirstChar(v, i + 1) - 1] = "."
         /\ Len(format_version(v)) = FirstChar(v, 4) + Len(Decimal[v[4]]) - 1
         /\ \A i \in 1..4 : \A k \in 1..Len(Decimal[v[i]]) :
              format_version(v)[FirstChar(v, i) + k - 1] = Decimal[v[i]][k]
<1>1. \A i \in 1..4 : /\ Decimal[v[i]] \in Seq(Ten) /\ Decimal[v[i]] \in Seq(VersionChars)
                      /\ Len(Decimal[v[i]]) \in 1..5
  <2>1. \A i \in 1..4 : Decimal[v[i]] \in Seq(Ten) /\ Len(Decimal[v[i]]) \in 1..5
    BY DecimalShape
  <2>2. \A s \in Seq(Ten) : s \in Seq(VersionChars)
    BY DEF VersionChars
  <2> QED
    BY <2>1, <2>2
<1>2. PICK a, b, c, d : a = Decimal[v[1]] /\ b = Decimal[v[2]] /\ c = Decimal[v[3]] /\ d = Decimal[v[4]]
  OBVIOUS
<1>3. /\ a \in Seq(VersionChars) /\ b \in Seq(VersionChars)
      /\ c \in Seq(VersionChars) /\ d \in Seq(VersionChars)
      /\ Len(a) \in 1..5 /\ Len(b) \in 1..5 /\ Len(c) \in 1..5 /\ Len(d) \in 1..5
  BY <1>1, <1>2
<1>5. "." \in VersionChars
  BY DEF VersionChars
<1>4. PICK p : p = a \o <<".">> \o b
  OBVIOUS
<1>6. /\ p \in Seq(VersionChars) /\ Len(p) = Len(a) + 1 + Len(b)
      /\ \A k \in 1..Len(a) : p[k] = a[k]
      /\ p[Len(a) + 1] = "."
      /\ \A k \in 1..Len(b) : p[Len(a) + 1 + k] = b[k]
  BY <1>3, <1>4, <1>5, Dotted
<1>24. PICK q : q = p \o <<".">> \o c
  OBVIOUS
<1>7. /\ q \in Seq(VersionChars) /\ Len(q) = Len(p) + 1 + Len(c)
      /\ \A k \in 1..Len(p) : q[k] = p[k]
      /\ q[Len(p) + 1] = "."
      /\ \A k \in 1..Len(c) : q[Len(p) + 1 + k] = c[k]
  <2>1. p \in Seq(VersionChars) /\ c \in Seq(VersionChars)
    BY <1>3, <1>6
  <2> QED
    BY <2>1, <1>24, <1>5, Dotted
<1>25. PICK text : text = q \o <<".">> \o d
  OBVIOUS
<1>8. /\ text \in Seq(VersionChars) /\ Len(text) = Len(q) + 1 + Len(d)
      /\ \A k \in 1..Len(q) : text[k] = q[k]
      /\ text[Len(q) + 1] = "."
      /\ \A k \in 1..Len(d) : text[Len(q) + 1 + k] = d[k]
  <2>1. q \in Seq(VersionChars) /\ d \in Seq(VersionChars)
    BY <1>3, <1>7
  <2> QED
    BY <2>1, <1>25, <1>5, Dotted
<1>9. format_version(v) = text
  BY <1>2, <1>4, <1>24, <1>25 DEF format_version
<1>10. PICK la, lb, lc, ld \in 1..5 : la = Len(a) /\ lb = Len(b) /\ lc = Len(c) /\ ld = Len(d)
  BY <1>3
<1>11. Len(p) = la + lb + 1 /\ Len(q) = la + lb + lc + 2 /\ Len(text) = la + lb + lc + ld + 3
  BY <1>6, <1>7, <1>8, <1>10
<1>12. /\ FirstChar(v, 1) = 1 /\ FirstChar(v, 2) = la + 2
       /\ FirstChar(v, 3) = la + lb + 3 /\ FirstChar(v, 4) = la + lb + lc + 4
  BY <1>2, <1>10 DEF FirstChar
<1>13. /\ \A k \in 1..la : p[k] = a[k]
       /\ p[la + 1] = "."
       /\ \A k \in 1..lb : p[la + 1 + k] = b[k]
  BY <1>6, <1>10
<1>14. /\ \A k \in 1..(la + lb + 1) : q[k] = p[k]
       /\ q[la + lb + 2] = "."
       /\ \A k \in 1..lc : q[la + lb + 2 + k] = c[k]
  BY <1>7, <1>10, <1>11
<1>15. /\ \A k \in 1..(la + lb + lc + 2) : text[k] = q[k]
       /\ text[la + lb + lc + 3] = "."
       /\ \A k \in 1..ld : text[la + lb + lc + 3 + k] = d[k]
  BY <1>8, <1>10, <1>11
<1>16. \A k \in 1..la : text[1 + k - 1] = a[k]
  BY <1>13, <1>14, <1>15
<1>17. \A k \in 1..lb : text[la + 2 + k - 1] = b[k]
  BY <1>13, <1>14, <1>15
<1>18. \A k \in 1..lc : text[la + lb + 3 + k - 1] = c[k]
  BY <1>14, <1>15
<1>19. \A k \in 1..ld : text[la + lb + lc + 4 + k - 1] = d[k]
  BY <1>15
<1>20. text[la + 2 - 1] = "." /\ text[la + lb + 3 - 1] = "." /\ text[la + lb + lc + 4 - 1] = "."
  BY <1>13, <1>14, <1>15
<1>21. \A i \in 1..3 : text[FirstChar(v, i + 1) - 1] = "."
  <2> SUFFICES ASSUME NEW i \in 1..3
               PROVE  text[FirstChar(v, i + 1) - 1] = "."
    OBVIOUS
  <2>1. i + 1 = 2 \/ i + 1 = 3 \/ i + 1 = 4
    OBVIOUS
  <2> QED
    BY <2>1, <1>12, <1>20
<1>22. \A i \in 1..4 : \A k \in 1..Len(Decimal[v[i]]) : text[FirstChar(v, i) + k - 1] = Decimal[v[i]][k]
  <2> SUFFICES ASSUME NEW i \in 1..4, NEW k \in 1..Len(Decimal[v[i]])
               PROVE  text[FirstChar(v, i) + k - 1] = Decimal[v[i]][k]
    OBVIOUS
  <2>1. CASE i = 1
    BY <2>1, <1>2, <1>10, <1>12, <1>16
  <2>2. CASE i = 2
    BY <2>2, <1>2, <1>10, <1>12, <1>17
  <2>3. CASE i = 3
    BY <2>3, <1>2, <1>10, <1>12, <1>18
  <2>4. CASE i = 4
    BY <2>4, <1>2, <1>10, <1>12, <1>19
  <2> QED
    BY <2>1, <2>2, <2>3, <2>4
<1>23. Len(text) \in 0..23 /\ Len(text) = FirstChar(v, 4) + Len(Decimal[v[4]]) - 1
  <2>1. /\ la + lb + lc + ld + 3 \in 0..23
        /\ la + lb + lc + ld + 3 = (la + lb + lc + 4) + ld - 1
    OBVIOUS
  <2>2. Len(Decimal[v[4]]) = ld
    BY <1>2, <1>10
  <2> QED
    BY <2>1, <2>2, <1>11, <1>12
<1> QED
  BY <1>8, <1>9, <1>21, <1>22, <1>23

(* A formatted version is a short text. *)
LEMMA FormatWidth ==
  ASSUME NEW v \in [1..4 -> 0..MaxPart]
  PROVE  Width(format_version(v)) \in 0..MAX_STRING_LEN
<1>1. PICK text : text = format_version(v)
  OBVIOUS
<1>2. text \in Seq(VersionChars) /\ Len(text) \in 0..23
  BY <1>1, FormatShape
<1>3. \A i \in DOMAIN text : Units(text[i]) = 1
  BY <1>2, UnitsAssumption DEF VersionChars, Ten
<1>4. \A i \in DOMAIN text : Units(text[i]) \in Nat
  BY <1>3
<1>5. Width(text) = Len(text)
  BY <1>2, <1>3, <1>4, WidthNat
<1> QED
  <2>1. \A n \in 0..23 : n \in 0..MAX_STRING_LEN
    BY DEF MAX_STRING_LEN
  <2> QED
    BY <2>1, <1>1, <1>2, <1>5

(* The strings VersionStrings sets. *)
Keys == {"Comments", "CompanyName", "FileDescription", "FileVersion", "InternalName",
         "LegalCopyright", "LegalTrademarks", "OriginalFilename", "ProductName",
         "ProductVersion", "AssemblyVersion"}

(* Their keys are short. *)
LEMMA KeysBounded ==
  /\ DOMAIN KeyUnits = Keys
  /\ \A key \in Keys : KeyUnits[key] \in 0..16
BY DEF KeyUnits, Keys

(* They are eleven. *)
LEMMA KeysCounted == \A s \in SUBSET Keys : IsFiniteSet(s) /\ Cardinality(s) \in 0..11
<1>1. DOMAIN KeyUnits = Keys
  BY KeysBounded
<1> DEFINE list == <<"Comments", "CompanyName", "FileDescription", "FileVersion", "InternalName",
                     "LegalCopyright", "LegalTrademarks", "OriginalFilename", "ProductName",
                     "ProductVersion", "AssemblyVersion">>
<1>2. \A k \in Keys : \E i \in 1..11 : list[i] = k
  BY DEF Keys
<1>3. \A i \in 1..11 : list[i] \in Keys
  BY DEF Keys
<1> DEFINE f == [i \in 1..11 |-> list[i]]
<1>4. f \in Surjection(1..11, Keys)
  <2>1. \A i \in 1..11 : f[i] = list[i]
    OBVIOUS
  <2>2. f \in [1..11 -> Keys]
    BY <1>3
  <2> HIDE DEF f, list
  <2>3. \A k \in Keys : \E i \in 1..11 : f[i] = k
    BY <1>2, <2>1
  <2> QED
    BY <2>2, <2>3 DEF Surjection
<1>5. IsFiniteSet(1..11) /\ Cardinality(1..11) = 11
  <2>1. PICK a, b \in Int : a = 1 /\ b = 11
    OBVIOUS
  <2>2. IsFiniteSet(a..b) /\ Cardinality(a..b) = IF a > b THEN 0 ELSE b - a + 1
    BY FS_Interval
  <2> QED
    BY <2>1, <2>2
<1>6. IsFiniteSet(Keys) /\ Cardinality(Keys) <= 11
  BY <1>4, <1>5, FS_Surjection
<1>7. \A s \in SUBSET Keys : IsFiniteSet(s) /\ Cardinality(s) <= Cardinality(Keys) /\ Cardinality(s) \in Nat /\ Cardinality(Keys) \in Nat
  BY <1>6, FS_Subset, FS_CardinalityType
<1> QED
  BY <1>6, <1>7

(* Padding to four bytes adds at most three. *)
LEMMA PadBounded ==
  ASSUME NEW m \in Nat, NEW k \in Nat, m + 3 <= k
  PROVE  Pad4(m) \in 0..k
<1>1. PICK n \in Nat, q \in Int, r \in Int : n = m + 3 /\ q = n \div 4 /\ r = n % 4
  OBVIOUS
<1>2. n = 4 * q + r /\ r \in 0..3
  BY <1>1
<1>3. q >= 0
  BY <1>2
<1>4. PICK p \in Nat : p = 4 * q /\ p <= n
  BY <1>2, <1>3
<1>5. n <= k
  BY <1>1
<1>6. p \in 0..k
  BY <1>4, <1>5
<1>7. Pad4(m) = p
  <2>1. n \div 4 = q /\ m + 3 = n
    BY <1>1
  <2>2. p = 4 * q
    BY <1>4
  <2> QED
    BY <2>1, <2>2, Zenon DEF Pad4
<1> QED
  BY <1>6, <1>7

(* The bytes of one string of the resource. *)
LEMMA EntryBounded ==
  ASSUME NEW key \in Keys, NEW value, Width(value) \in 0..MAX_STRING_LEN
  PROVE  EntryBytes(key, value) \in 0..4144
<1>1. PICK n \in 0..16 : n = KeyUnits[key]
  BY KeysBounded
<1>2. PICK w \in 0..2048 : w = Width(value)
  BY DEF MAX_STRING_LEN
<1>3. PICK m \in Nat, l \in Nat : m = 6 + 2 * (n + 1) /\ m <= 40 /\ l = 43
  OBVIOUS
<1>4. Pad4(m) \in 0..l
  <2>1. m + 3 <= l
    BY <1>3
  <2> QED
    BY <2>1, PadBounded
<1>5. PICK h \in 0..43 : h = Pad4(m)
  BY <1>3, <1>4
<1>6. PICK e \in Nat, u \in Nat : e = h + 2 * (w + 1) /\ e <= 4141 /\ u = 4144
  OBVIOUS
<1>7. Pad4(e) \in 0..u
  <2>1. e + 3 <= u
    BY <1>6
  <2> QED
    BY <2>1, PadBounded
<1> QED
  BY <1>1, <1>2, <1>3, <1>5, <1>6, <1>7 DEF EntryBytes

(* The slot of the template that is checked in. *)
LEMMA CheckedInSlot ==
  CheckedIn.slot = [found |-> TRUE, offset |-> 44632, capacity |-> 58080, size |-> 103424]
BY DEF CheckedIn

(* The texts of an accepted configuration are short. *)
LEMMA AcceptedWidths ==
  ASSUME NEW config, NEW host, ConfigType(config), ConfigFault(config, host) = None
  PROVE  \A key \in DOMAIN VersionStrings(config) :
           Width(VersionStrings(config)[key]) \in 0..MAX_STRING_LEN
<1>1. \A i \in 1..8 : Width(MetadataTexts(config)[i]) <= MAX_STRING_LEN
  BY ConfigChecked, MetadataChecked
<1>2. DOMAIN MetadataTexts(config) = 1..8
  BY DEF MetadataTexts
<1>3. \A i \in 1..8 : Width(MetadataTexts(config)[i]) \in 0..MAX_STRING_LEN
  <2> SUFFICES ASSUME NEW i \in 1..8
               PROVE  Width(MetadataTexts(config)[i]) \in 0..MAX_STRING_LEN
    OBVIOUS
  <2>1. IsText(MetadataTexts(config)[i])
    BY <1>2 DEF ConfigType, ToSet
  <2>2. Width(MetadataTexts(config)[i]) \in Nat
    BY <2>1, WidthNat DEF IsText
  <2> QED
    BY <1>1, <2>2 DEF MAX_STRING_LEN
<1>4. /\ MetadataTexts(config)[1] = config.assembly
      /\ MetadataTexts(config)[2] = DllName(config.assembly)
      /\ MetadataTexts(config)[3] = config.product
      /\ MetadataTexts(config)[4] = config.description
      /\ MetadataTexts(config)[5] = config.productName
      /\ MetadataTexts(config)[6] = config.company
      /\ MetadataTexts(config)[7] = config.copyright
      /\ MetadataTexts(config)[8] = config.comments
  BY DEF MetadataTexts
<1>5. /\ Width(config.assembly) \in 0..MAX_STRING_LEN
      /\ Width(DllName(config.assembly)) \in 0..MAX_STRING_LEN
      /\ Width(config.product) \in 0..MAX_STRING_LEN
      /\ Width(config.description) \in 0..MAX_STRING_LEN
      /\ Width(config.productName) \in 0..MAX_STRING_LEN
      /\ Width(config.company) \in 0..MAX_STRING_LEN
      /\ Width(config.copyright) \in 0..MAX_STRING_LEN
      /\ Width(config.comments) \in 0..MAX_STRING_LEN
  <2>1. 1 \in 1..8 /\ 2 \in 1..8 /\ 3 \in 1..8 /\ 4 \in 1..8 /\ 5 \in 1..8 /\ 6 \in 1..8 /\ 7 \in 1..8 /\ 8 \in 1..8
    OBVIOUS
  <2> QED
    BY <2>1, <1>3, <1>4, Zenon
<1>6. Width(format_version(config.file)) \in 0..MAX_STRING_LEN
  BY FormatWidth DEF ConfigType
<1> QED
  BY <1>5, <1>6 DEF VersionStrings

(* The strings of an accepted configuration fit the slot of that template. *)
LEMMA ResourceFits ==
  ASSUME NEW config, NEW host, NEW template, ConfigType(config), ConfigFault(config, host) = None,
         TemplateType(template, config)
  PROVE  ResourceBytes(ResourceStrings(template.version.strings, config)) <= 58080
<1> DEFINE old == template.version.strings
           new == VersionStrings(config)
           strings == ResourceStrings(old, config)
           entries == [key \in DOMAIN strings |-> EntryBytes(key, strings[key])]
<1>1. DOMAIN new \subseteq Keys
  BY DEF VersionStrings, Keys
<1>2. /\ DOMAIN old \subseteq Keys
      /\ \A key \in DOMAIN old \ DOMAIN new : key # "LegalTrademarks" =>
           Width(old[key]) \in 0..MAX_STRING_LEN
  BY KeysBounded DEF TemplateType
<1>3. \A key \in DOMAIN new : Width(new[key]) \in 0..MAX_STRING_LEN
  BY AcceptedWidths
<1> HIDE DEF old, new
<1>4. /\ DOMAIN strings = (DOMAIN new \cup DOMAIN old) \ {"LegalTrademarks"}
      /\ \A key \in DOMAIN strings : strings[key] = IF key \in DOMAIN new THEN new[key] ELSE old[key]
  BY DEF ResourceStrings, Restrict, Over, new
<1> HIDE DEF strings
<1>5. \A key \in DOMAIN strings : key \in Keys /\ Width(strings[key]) \in 0..MAX_STRING_LEN
  BY <1>1, <1>2, <1>3, <1>4
<1>6. \A key \in DOMAIN entries : entries[key] \in 0..4144
  BY <1>5, EntryBounded
<1>7. DOMAIN entries \in SUBSET Keys /\ IsFiniteSet(DOMAIN entries) /\ Cardinality(DOMAIN entries) \in 0..11
  BY <1>5, KeysCounted
<1> DEFINE total(base) == FoldFunction(+, base, entries)
<1>8. ResourceBytes(strings) = total(220)
  BY DEF ResourceBytes
<1> HIDE DEF entries
<1>9. PICK base \in Nat, k \in Nat : base = 220 /\ k = 4144
  OBVIOUS
<1>10. total(base) \in 0..(base + k * Cardinality(DOMAIN entries))
  <2>1. \A key \in DOMAIN entries : entries[key] \in 0..k
    BY <1>6, <1>9
  <2>2. IsFiniteSet(DOMAIN entries)
    BY <1>7
  <2> QED
    BY <2>1, <2>2, SumBounded
<1> HIDE DEF total
<1>11. \A c \in 0..11 : \A n \in 0..(base + k * c) : n <= 58080
  BY <1>9
<1>12. total(base) <= 58080
  BY <1>7, <1>10, <1>11
<1> QED
  BY <1>8, <1>9, <1>12 DEF strings, old

(* metadata.rs:157 *)
THEOREM MetadataFits == Spec => []ValidatedMetadataFits
<1>1. StageInv => ValidatedMetadataFits
  <2> SUFFICES ASSUME StageInv, error \in {InvalidConfig("capacity"), WriteError("bounds")},
                      input.template.slot = CheckedIn.slot
               PROVE  FALSE
    BY DEF ValidatedMetadataFits
  <2>1. /\ input \in Inputs
        /\ ConfigFault(input.config, input.host) = None
        /\ ResourceFault(input.template, input.config) = error
    BY DEF StageInv, Checked
  <2>2. ConfigType(input.config) /\ TemplateType(input.template, input.config)
    BY <2>1, InputsAssumption
  <2>3. ResourceBytes(ResourceStrings(input.template.version.strings, input.config)) <= 58080
    BY <2>1, <2>2, ResourceFits
  <2>4. /\ input.template.slot.found
        /\ input.template.slot.capacity = 58080
        /\ input.template.slot.offset + input.template.slot.capacity <= input.template.slot.size
    BY CheckedInSlot
  <2>5. ResourceFault(input.template, input.config) \notin {InvalidConfig("capacity"), WriteError("bounds")}
    <3> DEFINE a == Check(input.template.slot.found, WriteError("no slot"))
               b == Check(ResourceBytes(ResourceStrings(input.template.version.strings, input.config))
                            <= input.template.slot.capacity, InvalidConfig("capacity"))
               c == Check(input.template.slot.offset + input.template.slot.capacity
                            <= input.template.slot.size, WriteError("bounds"))
    <3>1. a = None
      BY <2>4 DEF Check
    <3>2. b = None
      BY <2>3, <2>4 DEF Check
    <3>3. c = None
      BY <2>4 DEF Check
    <3>4. ResourceFault(input.template, input.config) \in {WriteError("version info"), FirstOf(<<a, b, c>>)}
      BY DEF ResourceFault
    <3> HIDE DEF a, b, c
    <3>5. PICK r : r = <<a, b, c>>
      OBVIOUS
    <3>6. r \in Seq({None}) /\ \A i \in DOMAIN r : r[i] = None
      BY <3>1, <3>2, <3>3, <3>5
    <3>7. FirstOf(r) = None
      BY <3>6, FirstOfSpec
    <3>8. {None, WriteError("version info")} \cap {InvalidConfig("capacity"), WriteError("bounds")} = {}
      BY DEF None, WriteError, InvalidConfig, GenerateError
    <3> QED
      BY <3>4, <3>5, <3>7, <3>8
  <2> QED
    BY <2>1, <2>5
<1> QED
  BY <1>1, StagesChecked, PTL

(* The dots of a text before one of its characters. *)
DotsBefore(text, first) == {k \in 1..(first - 1) : text[k] = "."}

(* None comes before the first character. *)
LEMMA DotsNone ==
  ASSUME NEW text
  PROVE  IsFiniteSet(DotsBefore(text, 1)) /\ Cardinality(DotsBefore(text, 1)) = 0
<1>1. DotsBefore(text, 1) = {}
  BY DEF DotsBefore
<1> QED
  BY <1>1, FS_EmptySet

(* Behind a part without dots and a dot, there is one dot more. *)
LEMMA DotsMore ==
  ASSUME NEW text, NEW first \in Nat \ {0}, NEW len \in Nat,
         \A k \in first..(first + len - 1) : text[k] \in Ten,
         text[first + len] = ".",
         NEW n \in Nat, IsFiniteSet(DotsBefore(text, first)),
         Cardinality(DotsBefore(text, first)) = n
  PROVE  /\ IsFiniteSet(DotsBefore(text, first + len + 1))
         /\ Cardinality(DotsBefore(text, first + len + 1)) = n + 1
<1>1. DotsBefore(text, first + len + 1) = DotsBefore(text, first) \cup {first + len}
  <2>1. \A k \in first..(first + len - 1) : text[k] # "."
    BY TenDigits
  <2>2. ASSUME NEW k \in 1..(first + len), text[k] = ".", k # first + len
        PROVE  k \in 1..(first - 1)
    <3>1. k \notin first..(first + len - 1)
      BY <2>1, <2>2
    <3> QED
      BY <2>2, <3>1
  <2>3. first + len + 1 - 1 = first + len
    OBVIOUS
  <2>4. \A k \in 1..(first - 1) : k \in 1..(first + len)
    OBVIOUS
  <2>5. first + len \in 1..(first + len)
    OBVIOUS
  <2> QED
    BY <2>2, <2>3, <2>4, <2>5 DEF DotsBefore
<1>2. first + len \notin DotsBefore(text, first)
  BY DEF DotsBefore
<1> QED
  BY <1>1, <1>2, FS_AddElement

(* version_u32 keeps the four numbers. *)
LEMMA VersionNumbers ==
  ASSUME NEW v \in [1..4 -> 0..MaxPart], NEW i \in 1..4
  PROVE  (version_u32(v).major \o version_u32(v).minor)[i] = v[i]
<1>1. version_u32(v).major = <<v[1], v[2]>> /\ version_u32(v).minor = <<v[3], v[4]>>
  BY DEF version_u32
<1>2. PICK high, low, r : high = <<v[1], v[2]>> /\ low = <<v[3], v[4]>> /\ r = high \o low
  OBVIOUS
<1>3. /\ high \in Seq(0..MaxPart) /\ Len(high) = 2 /\ high[1] = v[1] /\ high[2] = v[2]
      /\ low \in Seq(0..MaxPart) /\ Len(low) = 2 /\ low[1] = v[3] /\ low[2] = v[4]
  BY <1>2
<1>7. \A j \in 1..(Len(high) + Len(low)) :
        (high \o low)[j] = IF j <= Len(high) THEN high[j] ELSE low[j - Len(high)]
  BY <1>3, ConcatProperties
<1>8. \A j \in 1..4 : r[j] = IF j <= 2 THEN high[j] ELSE low[j - 2]
  BY <1>2, <1>3, <1>7
<1>4. r[1] = v[1] /\ r[2] = v[2] /\ r[3] = v[3] /\ r[4] = v[4]
  BY <1>3, <1>8
<1>5. i = 1 \/ i = 2 \/ i = 3 \/ i = 4
  OBVIOUS
<1>6. r[i] = v[i]
  BY <1>4, <1>5
<1> QED
  BY <1>1, <1>2, <1>6

(* A part that stands between dots as its numeral is read as its number. *)
LEMMA PartReads ==
  ASSUME NEW text \in Seq(VersionChars), NEW n, NEW i \in 1..4, NEW first \in Nat \ {0},
         Decimal[n] \in Seq(Ten), first + Len(Decimal[n]) - 1 \in 0..Len(text),
         first = 1 \/ text[first - 1] = ".",
         Cardinality(DotsBefore(text, first)) = i - 1,
         \A k \in 1..Len(Decimal[n]) : text[first + k - 1] = Decimal[n][k],
         \/ first + Len(Decimal[n]) - 1 = Len(text)
         \/ text[first + Len(Decimal[n])] = "."
  PROVE  ReadsPart(text, i, n)
<1>1. PICK numeral : numeral = Decimal[n]
  OBVIOUS
<1>2. PICK len \in Nat : len = Len(numeral)
  BY <1>1
<1>3. PICK last \in 0..Len(text) : last = first + len - 1
  BY <1>1, <1>2
<1>4. PICK r : r = <<first, last>>
  OBVIOUS
<1>5. r[1] = first /\ r[2] = last /\ r \in (1..(Len(text) + 1)) \X (0..Len(text))
  <2>1. Len(text) \in Nat
    OBVIOUS
  <2>2. first \in 1..(Len(text) + 1)
    BY <1>3, <2>1
  <2> QED
    BY <1>4, <2>2
<1>6. \A k \in first..last : text[k] = numeral[k - first + 1] /\ text[k] \in Ten
  <2> SUFFICES ASSUME NEW k \in first..last
               PROVE  text[k] = numeral[k - first + 1] /\ text[k] \in Ten
    OBVIOUS
  <2>1. PICK j \in 1..len : j = k - first + 1 /\ k = first + j - 1
    BY <1>3
  <2>2. text[first + j - 1] = numeral[j]
    BY <1>1, <1>2
  <2>3. numeral[j] \in Ten
    BY <1>1, <1>2
  <2> QED
    BY <2>1, <2>2, <2>3
<1>7. last = Len(text) \/ text[last + 1] \notin Ten
  <2>1. last + 1 = first + len
    BY <1>3
  <2> QED
    BY <1>1, <1>2, <1>3, <2>1, TenDigits
<1>8. first <= last + 1
  BY <1>3
<1>9. r \in Numerals(text, i)
  BY <1>5, <1>6, <1>7, <1>8 DEF Numerals, DotsBefore, Ten
<1>10. SubSeq(text, first, last) = numeral
  <2>1. PICK s : s = SubSeq(text, first, last)
    OBVIOUS
  <2>2. /\ s \in Seq(VersionChars) /\ Len(s) = len
        /\ \A j \in 1..len : s[j] = text[first + j - 1]
    <3>1. first \in Int /\ last \in Int /\ last - first + 1 = len
      BY <1>3
    <3>2. \A j \in first..last : text[j] \in VersionChars
      BY <1>3
    <3>3. /\ SubSeq(text, first, last) \in Seq(VersionChars)
          /\ Len(SubSeq(text, first, last)) = IF first <= last THEN last - first + 1 ELSE 0
          /\ \A j \in 1..(last - first + 1) : SubSeq(text, first, last)[j] = text[first + j - 1]
      BY <3>1, <3>2, SubSeqProperties
    <3>4. (IF first <= last THEN last - first + 1 ELSE 0) = len
      BY <1>3
    <3> QED
      BY <2>1, <3>1, <3>3, <3>4
  <2>3. \A j \in 1..len : s[j] = numeral[j]
    BY <1>1, <1>2, <2>2
  <2>4. numeral \in Seq(Ten) /\ Len(numeral) = len
    BY <1>1, <1>2
  <2> QED
    BY <2>1, <2>2, <2>3, <2>4
<1>11. Denotes(text, r, n)
  <2>1. first \in first..(last + 1) /\ \A k \in first..(first - 1) : text[k] = "0"
    BY <1>3
  <2> QED
    BY <1>1, <1>5, <1>10, <2>1 DEF Denotes
<1> QED
  BY <1>9, <1>11 DEF ReadsPart

(* A version that format_version writes reads as the numbers it was given. *)
LEMMA FormatReads ==
  ASSUME NEW v \in [1..4 -> 0..MaxPart]
  PROVE  Reads(version_u32(v), format_version(v))
<1>1. PICK text : text = format_version(v)
  OBVIOUS
<1> DEFINE len(i) == Len(Decimal[v[i]])
           first(i) == FirstChar(v, i)
<1>2. \A i \in 1..4 : Decimal[v[i]] \in Seq(Ten) /\ len(i) \in 1..5
  BY DecimalShape
<1>3. /\ text \in Seq(VersionChars) /\ Len(text) \in 0..23
      /\ \A i \in 1..3 : text[first(i + 1) - 1] = "."
      /\ Len(text) = first(4) + len(4) - 1
      /\ \A i \in 1..4 : \A k \in 1..len(i) : text[first(i) + k - 1] = Decimal[v[i]][k]
  BY <1>1, FormatShape
<1>4. PICK a, b, c, d \in 1..5 :
        /\ a = len(1) /\ b = len(2) /\ c = len(3) /\ d = len(4)
        /\ first(1) = 1 /\ first(2) = a + 2 /\ first(3) = a + b + 3 /\ first(4) = a + b + c + 4
  <2>1. PICK a, b, c, d \in 1..5 : a = len(1) /\ b = len(2) /\ c = len(3) /\ d = len(4)
    BY <1>2
  <2>2. first(1) = 1 /\ first(2) = a + 2 /\ first(3) = a + b + 3 /\ first(4) = a + b + c + 4
    BY <2>1 DEF FirstChar
  <2> HIDE DEF len, first
  <2> QED
    BY <2>1, <2>2
<1>5. \A i \in 1..4 : \A k \in 1..len(i) : Decimal[v[i]][k] \in Ten
  BY <1>2
<1> HIDE DEF len, first
<1>6. \A i \in 1..3 : first(i + 1) = first(i) + len(i) + 1
  <2> SUFFICES ASSUME NEW i \in 1..3
               PROVE  first(i + 1) = first(i) + len(i) + 1
    OBVIOUS
  <2>1. i = 1 \/ i = 2 \/ i = 3
    OBVIOUS
  <2>2. CASE i = 1
    <3>1. first(i + 1) = first(2)
      BY <2>2
    <3>2. first(2) = first(1) + len(1) + 1
      BY <1>4
    <3> QED
      BY <2>2, <3>1, <3>2
  <2>3. CASE i = 2
    <3>1. first(i + 1) = first(3)
      BY <2>3
    <3>2. first(3) = first(2) + len(2) + 1
      BY <1>4
    <3> QED
      BY <2>3, <3>1, <3>2
  <2>4. CASE i = 3
    <3>1. first(i + 1) = first(4)
      BY <2>4
    <3>2. first(4) = first(3) + len(3) + 1
      BY <1>4
    <3> QED
      BY <2>4, <3>1, <3>2
  <2> QED
    BY <2>1, <2>2, <2>3, <2>4
<1>8. \A i \in 1..4 : first(i) \in Nat \ {0} /\ len(i) \in 1..5
  <2> SUFFICES ASSUME NEW i \in 1..4
               PROVE  first(i) \in Nat \ {0} /\ len(i) \in 1..5
    OBVIOUS
  <2>1. i = 1 \/ i = 2 \/ i = 3 \/ i = 4
    OBVIOUS
  <2> QED
    BY <1>4, <2>1
<1>9. \A i \in 1..4 : \A k \in first(i)..(first(i) + len(i) - 1) : text[k] \in Ten
  <2> SUFFICES ASSUME NEW i \in 1..4, NEW k \in first(i)..(first(i) + len(i) - 1)
               PROVE  text[k] \in Ten
    OBVIOUS
  <2>1. PICK j \in 1..len(i) : k = first(i) + j - 1
    <3>1. k - first(i) + 1 \in 1..len(i) /\ k = first(i) + (k - first(i) + 1) - 1
      BY <1>8
    <3> QED
      BY <3>1
  <2> QED
    BY <1>3, <1>5, <2>1
<1>10. \A i \in 1..3 : text[first(i) + len(i)] = "."
  <2> SUFFICES ASSUME NEW i \in 1..3
               PROVE  text[first(i) + len(i)] = "."
    OBVIOUS
  <2>1. first(i + 1) - 1 = first(i) + len(i)
    BY <1>6, <1>8
  <2> QED
    BY <1>3, <2>1
<1> DEFINE Counted(i) == /\ IsFiniteSet(DotsBefore(text, first(i)))
                         /\ Cardinality(DotsBefore(text, first(i))) = i - 1
<1>11. Counted(1)
  BY <1>4, DotsNone
<1>12. ASSUME NEW i \in 1..3, Counted(i)
       PROVE  Counted(i + 1)
  <2>1. PICK n \in Nat, f \in Nat \ {0}, l \in Nat : n = i - 1 /\ f = first(i) /\ l = len(i)
    BY <1>8
  <2>2. /\ \A k \in f..(f + l - 1) : text[k] \in Ten
        /\ text[f + l] = "."
        /\ IsFiniteSet(DotsBefore(text, f)) /\ Cardinality(DotsBefore(text, f)) = n
    BY <1>9, <1>10, <1>12, <2>1
  <2>3. /\ IsFiniteSet(DotsBefore(text, f + l + 1))
        /\ Cardinality(DotsBefore(text, f + l + 1)) = n + 1
    BY <2>2, DotsMore
  <2>4. first(i + 1) = f + l + 1 /\ n + 1 = (i + 1) - 1
    BY <1>6, <2>1
  <2> QED
    BY <2>3, <2>4
<1> HIDE DEF Counted
<1>13. \A i \in 1..4 : Counted(i)
  <2>1. Counted(1 + 1)
    BY <1>11, <1>12
  <2>2. Counted(2)
    BY <2>1
  <2>3. Counted(2 + 1)
    BY <2>2, <1>12
  <2>4. Counted(3)
    BY <2>3
  <2>5. Counted(3 + 1)
    BY <2>4, <1>12
  <2>6. Counted(4)
    BY <2>5
  <2> SUFFICES ASSUME NEW i \in 1..4
               PROVE  Counted(i)
    OBVIOUS
  <2>7. i = 1 \/ i = 2 \/ i = 3 \/ i = 4
    OBVIOUS
  <2> QED
    BY <1>11, <2>2, <2>4, <2>6, <2>7
<1>14. ASSUME NEW i \in 1..4
       PROVE  ReadsPart(text, i, v[i])
  <2>1. PICK f \in Nat \ {0}, n \in 0..MaxPart : f = first(i) /\ n = v[i]
    BY <1>8
  <2>2. Decimal[n] \in Seq(Ten) /\ \A k \in 1..Len(Decimal[n]) : text[f + k - 1] = Decimal[n][k]
    BY <1>2, <1>3, <2>1 DEF len
  <2>3. Cardinality(DotsBefore(text, f)) = i - 1
    BY <1>13, <2>1 DEF Counted
  <2>4. Len(Decimal[n]) = len(i)
    BY <2>1 DEF len
  <2>5. f + len(i) - 1 \in 0..Len(text)
    <3>1. PICK e \in 0..23 : e = Len(text) /\ e = a + b + c + 4 + d - 1
      BY <1>3, <1>4
    <3>2. /\ 1 + a - 1 \in 0..e /\ (a + 2) + b - 1 \in 0..e
          /\ (a + b + 3) + c - 1 \in 0..e /\ (a + b + c + 4) + d - 1 \in 0..e
      BY <3>1
    <3>3. i = 1 \/ i = 2 \/ i = 3 \/ i = 4
      OBVIOUS
    <3>4. first(i) + len(i) - 1 \in 0..e
      BY <1>4, <3>2, <3>3
    <3> QED
      BY <2>1, <3>1, <3>4
  <2>6. f = 1 \/ text[f - 1] = "."
    <3>1. CASE i = 1
      BY <3>1, <2>1, <1>4
    <3>2. CASE i # 1
      <4>1. i - 1 \in 1..3 /\ (i - 1) + 1 = i
        BY <3>2
      <4> QED
        BY <4>1, <1>3, <2>1
    <3> QED
      BY <3>1, <3>2
  <2>7. f + len(i) - 1 = Len(text) \/ text[f + len(i)] = "."
    <3>1. CASE i = 4
      BY <3>1, <1>3, <2>1
    <3>2. CASE i # 4
      <4>1. i \in 1..3
        BY <3>2
      <4> QED
        BY <4>1, <1>10, <2>1
    <3> QED
      BY <3>1, <3>2
  <2>8. ReadsPart(text, i, n)
    BY <1>3, <2>2, <2>3, <2>4, <2>5, <2>6, <2>7, PartReads
  <2> QED
    BY <2>1, <2>8
<1> QED
  BY <1>1, <1>14, VersionNumbers DEF Reads

(* The stages before the shim is written have all patched the image. *)
LEMMA WrittenStages ==
  ASSUME pc = "written"
  PROVE  /\ pc \in PastTab /\ pc \in PastNative /\ pc \in PastModuleRef /\ pc \in PastRefCommon
         /\ pc \in PastRefAct /\ pc \in PastAttributes /\ pc \in PastAssembly /\ pc \in PastResource
         /\ pc # "failed"
BY DEF PastTab, PastNative, PastModuleRef, PastRefCommon, PastRefAct, PastAttributes,
       PastAssembly, PastResource

(* The texts a configuration is stamped with. *)
LEMMA ConfiguredTexts ==
  ASSUME NEW config
  PROVE  /\ \A key \in DOMAIN VersionStrings(config) : VersionStrings(config)[key] \in Configured(config)
         /\ \A a \in DOMAIN AttributeTexts(config) : AttributeTexts(config)[a] \in Configured(config)
         /\ config.native \in Configured(config) /\ config.tab \in Configured(config)
         /\ config.assembly \in Configured(config) /\ DllName(config.assembly) \in Configured(config)
<1>1. \A key \in DOMAIN VersionStrings(config) : VersionStrings(config)[key] \in Configured(config)
  BY DEF Configured, Range
<1>2. \A a \in DOMAIN AttributeTexts(config) : AttributeTexts(config)[a] \in Configured(config)
  BY DEF Configured, Range
<1>3. config.native \in Configured(config) /\ config.tab \in Configured(config)
  BY DEF Configured
<1>4. /\ "InternalName" \in DOMAIN VersionStrings(config)
      /\ VersionStrings(config)["InternalName"] = config.assembly
      /\ "OriginalFilename" \in DOMAIN VersionStrings(config)
      /\ VersionStrings(config)["OriginalFilename"] = DllName(config.assembly)
  BY DEF VersionStrings
<1> QED
  BY <1>1, <1>2, <1>3, <1>4

(* Every row of the patched tables is one of them, or a row no patch was due to. *)
LEMMA RowsNamed ==
  ASSUME StageInv, pc = "written"
  PROVE  /\ \A i \in DOMAIN image.moduleRefs :
              image.moduleRefs[i] \in Configured(input.config) \cup Unpatched(input.template, input.config)
         /\ \A i \in DOMAIN image.userStrings :
              image.userStrings[i] \in Configured(input.config) \cup Unpatched(input.template, input.config)
         /\ \A i \in DOMAIN image.module :
              image.module[i] \in Configured(input.config) \cup Unpatched(input.template, input.config)
<1> DEFINE template == input.template
           config == input.config
           S == Configured(config) \cup Unpatched(template, config)
<1>1. ManifestPatched /\ StringsPatched /\ Checked
  BY WrittenStages DEF StageInv, Patched
<1>2. ASSUME NEW i \in DOMAIN image.moduleRefs
      PROVE  image.moduleRefs[i] \in S
  <2>1. PICK r \in DOMAIN template.moduleRefs :
          /\ FirstNative(r)
          /\ image.moduleRefs = [template.moduleRefs EXCEPT ![r] = config.native]
    BY <1>1, WrittenStages DEF StringsPatched
  <2>2. CASE i = r
    BY <2>1, <2>2, ConfiguredTexts
  <2>3. CASE i # r
    <3>1. i \in DOMAIN template.moduleRefs /\ image.moduleRefs[i] = template.moduleRefs[i]
      BY <2>1, <2>3
    <3>2. template.moduleRefs[i] = NATIVE_PLACEHOLDER =>
            \E j \in 1..(i - 1) : template.moduleRefs[j] = NATIVE_PLACEHOLDER
      <4> SUFFICES ASSUME template.moduleRefs[i] = NATIVE_PLACEHOLDER
                   PROVE  \E j \in 1..(i - 1) : template.moduleRefs[j] = NATIVE_PLACEHOLDER
        OBVIOUS
      <4>1. DOMAIN template.moduleRefs = 1..Len(template.moduleRefs) /\ Len(template.moduleRefs) \in Nat
        BY <1>1, TemplateTables
      <4>2. i \in Nat /\ r \in 1..Len(template.moduleRefs) /\ i >= 1
        BY <3>1, <4>1
      <4>3. i \notin 1..(r - 1)
        BY <2>1 DEF FirstNative
      <4>4. r \in 1..(i - 1)
        BY <2>3, <4>1, <4>2, <4>3
      <4> QED
        BY <2>1, <4>4 DEF FirstNative
    <3> QED
      BY <3>1, <3>2 DEF Unpatched
  <2> QED
    BY <2>2, <2>3
<1>3. ASSUME NEW i \in DOMAIN image.userStrings
      PROVE  image.userStrings[i] \in S
  <2>1. /\ i \in DOMAIN template.userStrings
        /\ image.userStrings[i] =
             CASE template.userStrings[i] = NATIVE_PLACEHOLDER -> config.native
               [] template.userStrings[i] = TAB_NAME_PLACEHOLDER -> config.tab
               [] OTHER -> template.userStrings[i]
    BY <1>1, WrittenStages DEF StringsPatched
  <2>2. template.userStrings[i] \in ToSet(template.userStrings)
    BY <2>1 DEF ToSet
  <2>3. image.userStrings[i] \in {config.native, config.tab} \cup
          (ToSet(template.userStrings) \ {NATIVE_PLACEHOLDER, TAB_NAME_PLACEHOLDER})
    BY <2>1, <2>2
  <2> QED
    BY <2>3, ConfiguredTexts DEF Unpatched
<1>4. ASSUME NEW i \in DOMAIN image.module
      PROVE  image.module[i] \in S
  <2>1. image.module = [template.module EXCEPT ![1] = DllName(config.assembly)]
    BY <1>1, WrittenStages DEF ManifestPatched
  <2>2. CASE i = 1
    BY <2>1, <2>2, ConfiguredTexts
  <2>3. CASE i # 1
    BY <2>1, <2>3 DEF Unpatched
  <2> QED
    BY <2>2, <2>3
<1> QED
  BY <1>2, <1>3, <1>4

(* So is every string of the resource, and every attribute. *)
LEMMA ResourceNamed ==
  ASSUME StageInv, pc = "written"
  PROVE  /\ \A key \in DOMAIN image.version.strings :
              image.version.strings[key] \in Configured(input.config) \cup Unpatched(input.template, input.config)
         /\ \A a \in DOMAIN image.attributes :
              image.attributes[a] \in Configured(input.config) \cup Unpatched(input.template, input.config)
<1> DEFINE template == input.template
           config == input.config
           old == template.version.strings
           new == VersionStrings(config)
           texts == AttributeTexts(config)
<1>1. ResourcePatched /\ ManifestPatched
  BY WrittenStages DEF StageInv, Patched
<1>2. image.version.strings = ResourceStrings(old, config)
  BY <1>1, WrittenStages DEF ResourcePatched, PatchedVersion
<1>3. image.attributes = Over(texts, template.attributes)
  BY <1>1, WrittenStages DEF ManifestPatched
<1>4. /\ DOMAIN image.version.strings = (DOMAIN new \cup DOMAIN old) \ {"LegalTrademarks"}
      /\ \A key \in DOMAIN image.version.strings :
           image.version.strings[key] = IF key \in DOMAIN new THEN new[key] ELSE old[key]
  <2> HIDE DEF old
  <2> QED
    BY <1>2 DEF ResourceStrings, Restrict, Over
<1>5. /\ DOMAIN image.attributes = DOMAIN texts \cup DOMAIN template.attributes
      /\ \A a \in DOMAIN image.attributes :
           image.attributes[a] = IF a \in DOMAIN texts THEN texts[a] ELSE template.attributes[a]
  <2> HIDE DEF texts
  <2> QED
    BY <1>3 DEF Over
<1>6. ASSUME NEW key \in DOMAIN image.version.strings
      PROVE  image.version.strings[key] \in Configured(config) \cup Unpatched(template, config)
  <2>1. CASE key \in DOMAIN new
    BY <2>1, <1>4, ConfiguredTexts
  <2>2. CASE key \notin DOMAIN new
    <3>1. /\ key \in DOMAIN template.version.strings
          /\ key \notin DOMAIN VersionStrings(config) \cup {"LegalTrademarks"}
          /\ image.version.strings[key] = template.version.strings[key]
      BY <2>2, <1>4
    <3> QED
      BY <3>1 DEF Unpatched
  <2> QED
    BY <2>1, <2>2
<1>7. ASSUME NEW a \in DOMAIN image.attributes
      PROVE  image.attributes[a] \in Configured(config) \cup Unpatched(template, config)
  <2>1. CASE a \in DOMAIN texts
    BY <2>1, <1>5, ConfiguredTexts
  <2>2. CASE a \notin DOMAIN texts
    <3>1. /\ a \in DOMAIN template.attributes /\ a \notin DOMAIN AttributeTexts(config)
          /\ image.attributes[a] = template.attributes[a]
      BY <2>2, <1>5
    <3> QED
      BY <3>1 DEF Unpatched
  <2> QED
    BY <2>1, <2>2
<1> QED
  BY <1>6, <1>7

(* The manifest has the configured name. *)
LEMMA ManifestNamed ==
  ASSUME StageInv, pc = "written"
  PROVE  /\ image.assembly[1].name = input.config.assembly
         /\ image.module[1] = DllName(input.config.assembly)
<1>1. /\ input.template.assembly # <<>> /\ input.template.module # <<>>
      /\ image.assembly = [input.template.assembly EXCEPT
                             ![1] = [name |-> input.config.assembly, version |-> input.config.version]]
      /\ image.module = [input.template.module EXCEPT ![1] = DllName(input.config.assembly)]
  BY WrittenStages DEF StageInv, Patched, ManifestPatched
<1>2. 1 \in DOMAIN input.template.assembly /\ 1 \in DOMAIN input.template.module
  <2>1. \A S : \A s \in Seq(S) : s # <<>> => 1 \in DOMAIN s
    BY EmptySeq, LenProperties
  <2>2. /\ input.template.assembly \in Seq(ToSet(input.template.assembly))
        /\ input.template.module \in Seq(ToSet(input.template.module))
    BY TemplateTables DEF StageInv
  <2> QED
    BY <1>1, <2>1, <2>2
<1> QED
  BY <1>1, <1>2

(* What the resource and the attributes say once every stage is passed. *)
LEMMA StampedTexts ==
  ASSUME StageInv, pc = "written"
  PROVE  /\ image.version.strings["InternalName"] = input.config.assembly
         /\ image.version.strings["OriginalFilename"] = DllName(input.config.assembly)
         /\ image.version.strings["FileVersion"] = format_version(input.config.file)
         /\ image.version.strings["ProductVersion"] = input.config.product
         /\ image.attributes["AssemblyTitle"] = input.config.assembly
         /\ image.attributes["AssemblyFileVersion"] = format_version(input.config.file)
         /\ image.attributes["AssemblyInformationalVersion"] = input.config.product
         /\ image.version.numeric.file = version_u32(input.config.file)
         /\ image.version.numeric.product = version_u32(parse_product_version(input.config.product))
<1>1. /\ image.version = PatchedVersion(input.template.version, input.config)
      /\ image.attributes = Over(AttributeTexts(input.config), input.template.attributes)
  BY WrittenStages DEF StageInv, Patched, ResourcePatched, ManifestPatched
<1>2. /\ image.version.strings = ResourceStrings(input.template.version.strings, input.config)
      /\ image.version.numeric.file = version_u32(input.config.file)
      /\ image.version.numeric.product = version_u32(parse_product_version(input.config.product))
  BY <1>1 DEF PatchedVersion
<1>3. \A key \in DOMAIN VersionStrings(input.config) \ {"LegalTrademarks"} :
        image.version.strings[key] = VersionStrings(input.config)[key]
  BY <1>2 DEF ResourceStrings, Restrict, Over
<1>4. \A a \in DOMAIN AttributeTexts(input.config) :
        image.attributes[a] = AttributeTexts(input.config)[a]
  BY <1>1 DEF Over
<1>5. /\ {"InternalName", "OriginalFilename", "FileVersion", "ProductVersion"}
           \subseteq DOMAIN VersionStrings(input.config) \ {"LegalTrademarks"}
      /\ VersionStrings(input.config)["InternalName"] = input.config.assembly
      /\ VersionStrings(input.config)["OriginalFilename"] = DllName(input.config.assembly)
      /\ VersionStrings(input.config)["FileVersion"] = format_version(input.config.file)
      /\ VersionStrings(input.config)["ProductVersion"] = input.config.product
  BY DEF VersionStrings
<1>6. /\ {"AssemblyTitle", "AssemblyFileVersion", "AssemblyInformationalVersion"}
           \subseteq DOMAIN AttributeTexts(input.config)
      /\ AttributeTexts(input.config)["AssemblyTitle"] = input.config.assembly
      /\ AttributeTexts(input.config)["AssemblyFileVersion"] = format_version(input.config.file)
      /\ AttributeTexts(input.config)["AssemblyInformationalVersion"] = input.config.product
  BY DEF AttributeTexts
<1> QED
  BY <1>2, <1>3, <1>4, <1>5, <1>6

(* The library that is imported is the one that InitPlugin loads. *)
LEMMA LibraryNamed ==
  ASSUME StageInv, pc = "written"
  PROVE  \E i \in DOMAIN image.moduleRefs :
           /\ input.template.moduleRefs[i] = NATIVE_PLACEHOLDER
           /\ \A j \in DOMAIN image.userStrings :
                input.template.userStrings[j] = NATIVE_PLACEHOLDER =>
                  image.userStrings[j] = image.moduleRefs[i]
<1>1. StringsPatched
  BY WrittenStages DEF StageInv, Patched
<1>2. PICK i \in DOMAIN input.template.moduleRefs :
        /\ FirstNative(i)
        /\ image.moduleRefs = [input.template.moduleRefs EXCEPT ![i] = input.config.native]
  BY <1>1, WrittenStages DEF StringsPatched
<1>3. i \in DOMAIN image.moduleRefs /\ image.moduleRefs[i] = input.config.native
  BY <1>2
<1>4. \A j \in DOMAIN image.userStrings :
        input.template.userStrings[j] = NATIVE_PLACEHOLDER => image.userStrings[j] = input.config.native
  <2> SUFFICES ASSUME NEW j \in DOMAIN image.userStrings,
                      input.template.userStrings[j] = NATIVE_PLACEHOLDER
               PROVE  image.userStrings[j] = input.config.native
    OBVIOUS
  <2>1. NATIVE_PLACEHOLDER # TAB_NAME_PLACEHOLDER
    BY DEF NATIVE_PLACEHOLDER, TAB_NAME_PLACEHOLDER
  <2>2. image.userStrings[j] =
          CASE input.template.userStrings[j] = NATIVE_PLACEHOLDER -> input.config.native
            [] input.template.userStrings[j] = TAB_NAME_PLACEHOLDER -> input.config.tab
            [] OTHER -> input.template.userStrings[j]
    BY <1>1, WrittenStages DEF StringsPatched
  <2> QED
    BY <2>1, <2>2
<1>5. input.template.moduleRefs[i] = NATIVE_PLACEHOLDER
  BY <1>2 DEF FirstNative
<1> QED
  BY <1>3, <1>4, <1>5

(* A shim that is written carries one identity: no placeholder of the template is left in it,
   its manifest, module, resource and attributes agree on the assembly and its versions, its
   P/Invoke reference names the library of the configuration, and its references are the
   template's own or those of the two SDK assemblies (managed.rs and metadata.rs, whose patches
   each rewrite one table). *)
THEOREM NamedOnce == Spec => []OneIdentity
<1>1. StageInv => OneIdentity
  <2> SUFFICES ASSUME StageInv, pc = "written"
               PROVE  OneIdentity
    BY DEF OneIdentity
  <2>1. file = image /\ Checked /\ input \in Inputs
    BY DEF StageInv, Checked
  <2>2. Texts(file) \cap Placeholders \subseteq Configured(input.config)
    <3> DEFINE S == Configured(input.config) \cup Unpatched(input.template, input.config)
    <3>1. /\ ToSet(image.moduleRefs) \subseteq S /\ ToSet(image.userStrings) \subseteq S
          /\ ToSet(image.module) \subseteq S
      BY RowsNamed DEF ToSet
    <3>2. Range(image.version.strings) \subseteq S /\ Range(image.attributes) \subseteq S
      BY ResourceNamed DEF Range
    <3>3. image.assembly[1].name \in S
      BY ManifestNamed, ConfiguredTexts
    <3>4. Texts(image) \subseteq S
      <4> HIDE DEF S
      <4> QED
        BY <3>1, <3>2, <3>3 DEF Texts
    <3>5. Unpatched(input.template, input.config) \cap Placeholders = {}
      BY <2>1, InputsAssumption DEF TemplateType
    <3> QED
      BY <2>1, <3>4, <3>5
  <2>3. /\ file.assembly[1].name = file.version.strings["InternalName"]
        /\ file.assembly[1].name = file.attributes["AssemblyTitle"]
        /\ file.module[1] = file.version.strings["OriginalFilename"]
    BY <2>1, ManifestNamed, StampedTexts
  <2>4. Reads(file.version.numeric.file, file.version.strings["FileVersion"])
    <3>1. input.config.file \in [1..4 -> 0..MaxPart]
      BY <2>1, TemplateTables DEF ConfigType
    <3> QED
      BY <2>1, <3>1, FormatReads, StampedTexts
  <2>5. /\ file.version.strings["FileVersion"] = file.attributes["AssemblyFileVersion"]
        /\ file.version.strings["ProductVersion"] = file.attributes["AssemblyInformationalVersion"]
    BY <2>1, StampedTexts
  <2>6. /\ \A a \in {input.act, input.common} :
             \E i \in DOMAIN file.refs : Names(file.refs[i], a.identity)
        /\ \A i \in DOMAIN file.refs :
             \/ file.refs[i] = input.template.refs[i]
             \/ \E a \in {input.act, input.common} : Names(file.refs[i], a.identity)
    BY <2>1, WrittenStages DEF StageInv, Patched, ReferencesPatched
  <2> QED
    BY <2>1, <2>2, <2>3, <2>4, <2>5, <2>6, LibraryNamed DEF OneIdentity
<1> QED
  BY <1>1, StagesChecked, PTL

-------------------------------------------------------------------------------
(* A numeral and its number. *)

(* ParseNumber folds this over the digits; it stops once the number is too large. *)
Horner(n, c) == IF n > MaxPart THEN n ELSE 10 * n + ValueOf[c]
H == INSTANCE FoldLemmas WITH Op <- Horner

(* A digit and its value. *)
LEMMA DigitValues ==
  /\ \A c \in Ten : ValueOf[c] \in 0..9 /\ DigitOf[ValueOf[c] + 1] = c
  /\ \A n \in 0..9 : ValueOf[DigitOf[n + 1]] = n
<1>1. \A i \in 1..10 : \A j \in 1..10 : DigitOf[i] = DigitOf[j] => i = j
  BY DEF DigitOf
<1>2. \A c \in Ten : \E i \in 1..10 : DigitOf[i] = c
  BY TenDigits DEF DigitOf
<1>3. \A c \in Ten : ValueOf[c] = (CHOOSE i \in 1..10 : DigitOf[i] = c) - 1
  BY DEF Ten, ValueOf
<1> DEFINE place(c) == CHOOSE i \in 1..10 : DigitOf[i] = c
<1>4. \A c \in Ten : place(c) \in 1..10 /\ DigitOf[place(c)] = c
  BY <1>2
<1>5. \A c \in Ten : ValueOf[c] = place(c) - 1
  BY <1>3
<1> HIDE DEF place
<1>6. \A c \in Ten : ValueOf[c] \in 0..9 /\ ValueOf[c] + 1 = place(c)
  BY <1>4, <1>5
<1>7. \A n \in 0..9 : place(DigitOf[n + 1]) = n + 1
  <2> SUFFICES ASSUME NEW n \in 0..9
               PROVE  place(DigitOf[n + 1]) = n + 1
    OBVIOUS
  <2>1. DigitOf[n + 1] \in Ten
    BY TenDigits
  <2>2. n + 1 \in 1..10
    OBVIOUS
  <2> QED
    BY <1>1, <1>4, <2>1, <2>2
<1>8. \A n \in 0..9 : ValueOf[DigitOf[n + 1]] = n
  BY <1>5, <1>7, TenDigits
<1> QED
  BY <1>4, <1>6, <1>8

(* ParseNumber as the fold that FoldLemmas is about. *)
LEMMA ParseIsFold == \A digits : ParseNumber(digits) = H!Fold(0, digits)
BY DEF ParseNumber, H!Fold, Horner, FoldLeft, H!FoldLeft, MapThenFoldSet, H!MapThenFoldSet, Max, H!Max

(* What one more digit does to the number. *)
LEMMA ParseStep ==
  /\ ParseNumber(<<>>) = 0
  /\ \A d \in Seq(Ten), c \in Ten :
       ParseNumber(Append(d, c)) =
         IF ParseNumber(d) > MaxPart THEN ParseNumber(d) ELSE 10 * ParseNumber(d) + ValueOf[c]
<1>1. ParseNumber(<<>>) = 0
  BY ParseIsFold, H!FoldEmpty
<1>2. ASSUME NEW d \in Seq(Ten), NEW c \in Ten
      PROVE  ParseNumber(Append(d, c)) =
               IF ParseNumber(d) > MaxPart THEN ParseNumber(d) ELSE 10 * ParseNumber(d) + ValueOf[c]
  <2>1. H!Fold(0, Append(d, c)) = Horner(H!Fold(0, d), c)
    BY H!FoldAppend
  <2> QED
    BY <2>1, ParseIsFold DEF Horner
<1> QED
  BY <1>1, <1>2

(* The digits are n in decimal, perhaps behind zeros. *)
Writes(digits, n) ==
  \E z \in 1..(Len(digits) + 1) :
    /\ \A k \in 1..(z - 1) : digits[k] = "0"
    /\ \/ SubSeq(digits, z, Len(digits)) = Decimal[n]
       \/ n = 0 /\ z = Len(digits) + 1

(* The end of a sequence with one more element. *)
LEMMA AppendEnd ==
  ASSUME NEW S, NEW d \in Seq(S), NEW c \in S, NEW z \in 1..(Len(d) + 1)
  PROVE  /\ SubSeq(Append(d, c), z, Len(d) + 1) = Append(SubSeq(d, z, Len(d)), c)
         /\ SubSeq(d, z, Len(d)) \in Seq(S)
<1>1. PICK n \in Nat : n = Len(d)
  OBVIOUS
<1>2. PICK s : s = SubSeq(d, z, n)
  OBVIOUS
<1>3. PICK t : t = SubSeq(Append(d, c), z, n + 1)
  OBVIOUS
<1>4. /\ DOMAIN Append(d, c) = 1..(n + 1) /\ \A i \in 1..n : Append(d, c)[i] = d[i]
      /\ Append(d, c)[n + 1] = c /\ \A i \in 1..(n + 1) : Append(d, c)[i] \in S
  BY <1>1
<1>5. s \in Seq(S) /\ Len(s) = n - z + 1 /\ \A i \in 1..(n - z + 1) : s[i] = d[z + i - 1]
  <2>1. z \in Int /\ n \in Int /\ \A i \in z..n : d[i] \in S
    BY <1>1
  <2>2. /\ SubSeq(d, z, n) \in Seq(S)
        /\ Len(SubSeq(d, z, n)) = IF z <= n THEN n - z + 1 ELSE 0
        /\ \A i \in 1..(n - z + 1) : SubSeq(d, z, n)[i] = d[z + i - 1]
    BY <2>1, SubSeqProperties
  <2>3. (IF z <= n THEN n - z + 1 ELSE 0) = n - z + 1
    BY <1>1
  <2> QED
    BY <1>2, <2>2, <2>3
<1>6. t \in Seq(S) /\ Len(t) = n - z + 2 /\ \A i \in 1..(n - z + 2) : t[i] = Append(d, c)[z + i - 1]
  <2>1. PICK e \in Seq(S), k \in Int : e = Append(d, c) /\ k = n + 1
    <3>1. Append(d, c) \in Seq(S) /\ n + 1 \in Int
      OBVIOUS
    <3> QED
      BY <3>1
  <2>2. z \in Int /\ k \in Int /\ \A i \in z..k : e[i] \in S
    BY <1>1, <1>4, <2>1
  <2>3. /\ SubSeq(e, z, k) \in Seq(S)
        /\ Len(SubSeq(e, z, k)) = IF z <= k THEN k - z + 1 ELSE 0
        /\ \A i \in 1..(k - z + 1) : SubSeq(e, z, k)[i] = e[z + i - 1]
    BY <2>2, SubSeqProperties
  <2>4. z <= k /\ k - z + 1 = n - z + 2
    BY <1>1, <2>1
  <2>5. t = SubSeq(e, z, k)
    BY <1>3, <2>1
  <2> QED
    BY <2>1, <2>3, <2>4, <2>5
<1>7. PICK u : u = Append(s, c)
  OBVIOUS
<1>8. u \in Seq(S) /\ Len(u) = n - z + 2 /\ (\A i \in 1..(n - z + 1) : u[i] = s[i]) /\ u[n - z + 2] = c
  BY <1>1, <1>5, <1>7
<1>9. \A i \in 1..(n - z + 2) : t[i] = u[i]
  <2> SUFFICES ASSUME NEW i \in 1..(n - z + 2)
               PROVE  t[i] = u[i]
    OBVIOUS
  <2>1. t[i] = Append(d, c)[z + i - 1] /\ z + i - 1 \in 1..(n + 1)
    BY <1>1, <1>6
  <2>2. CASE i = n - z + 2
    <3>1. z + i - 1 = n + 1
      BY <1>1, <2>2
    <3> QED
      BY <1>4, <1>8, <2>1, <2>2, <3>1
  <2>3. CASE i # n - z + 2
    <3>1. i \in 1..(n - z + 1) /\ z + i - 1 \in 1..n
      BY <1>1, <2>3
    <3> QED
      BY <1>4, <1>5, <1>8, <2>1, <3>1
  <2> QED
    BY <2>2, <2>3
<1>10. t = u
  BY <1>6, <1>8, <1>9, SeqEqual
<1> QED
  BY <1>1, <1>2, <1>3, <1>5, <1>7, <1>10

(* The largest part of a version is a number: all that most proofs need of it. *)
LEMMA MaxPartNat == MaxPart \in Nat
BY DEF MaxPart

(* Sequences with one more element are equal only element by element. *)
LEMMA AppendSame ==
  ASSUME NEW S, NEW s \in Seq(S), NEW t \in Seq(S), NEW x \in S, NEW y \in S,
         Append(s, x) = Append(t, y)
  PROVE  s = t /\ x = y
<1>1. PICK u : u = Append(s, x) /\ u = Append(t, y)
  OBVIOUS
<1>2. Len(u) = Len(s) + 1 /\ u[Len(s) + 1] = x /\ \A i \in 1..Len(s) : u[i] = s[i]
  BY <1>1
<1>3. Len(u) = Len(t) + 1 /\ u[Len(t) + 1] = y /\ \A i \in 1..Len(t) : u[i] = t[i]
  BY <1>1
<1>4. Len(s) \in Nat /\ Len(t) \in Nat
  OBVIOUS
<1>5. Len(s) = Len(t)
  BY <1>2, <1>3, <1>4
<1>6. \A i \in 1..Len(s) : s[i] = t[i]
  BY <1>2, <1>3, <1>5
<1> QED
  BY <1>2, <1>3, <1>5, <1>6, SeqEqual

(* Decimal, place by place. *)
LEMMA DecimalPlaces ==
  ASSUME NEW n \in 0..MaxPart
  PROVE  /\ n < 10 => Decimal[n] = <<DigitOf[n + 1]>>
         /\ n >= 10 => /\ Decimal[n] = Append(Decimal[n \div 10], DigitOf[(n % 10) + 1])
                       /\ n \div 10 \in 1..MaxPart /\ n % 10 \in 0..9
                       /\ n = 10 * (n \div 10) + (n % 10)
<1>1. n \in Nat
  OBVIOUS
<1>2. Decimal[n] = Digits(Decimal, n)
  BY <1>1, DecimalDefined
<1>3. CASE n < 10
  BY <1>1, <1>2, <1>3 DEF Digits
<1>4. CASE n >= 10
  <2>1. n \div 10 \in 1..(n - 1) /\ n % 10 \in 0..9 /\ n = 10 * (n \div 10) + (n % 10)
    BY <1>1, <1>4, Tenth
  <2>2. n \div 10 \in 1..MaxPart
    <3>1. PICK m \in Nat, t \in 1..(n - 1) : m = MaxPart /\ t = n \div 10
      BY <2>1, MaxPartNat
    <3>2. n \in 0..m
      BY <3>1
    <3>3. t \in 1..m
      BY <1>1, <3>2
    <3> QED
      BY <3>1, <3>3
  <2>3. ~ (n < 10)
    BY <1>1, <1>4
  <2>4. Decimal[n] = Append(Decimal[n \div 10], DigitOf[(n % 10) + 1])
    BY <1>2, <2>3 DEF Digits
  <2> QED
    BY <2>1, <2>2, <2>3, <2>4
<1> QED
  BY <1>1, <1>3, <1>4

(* One digit more behind a numeral: ten times the number, and the digit. *)
LEMMA DecimalAppend ==
  ASSUME NEW m \in 1..MaxPart, NEW v \in 0..9, NEW n \in 0..MaxPart, n = 10 * m + v
  PROVE  Decimal[n] = Append(Decimal[m], DigitOf[v + 1])
<1>1. n >= 10
  OBVIOUS
<1>2. PICK q \in 1..MaxPart, r \in 0..9 :
        q = n \div 10 /\ r = n % 10 /\ Decimal[n] = Append(Decimal[q], DigitOf[r + 1]) /\ n = 10 * q + r
  BY <1>1, DecimalPlaces
<1>3. q = m /\ r = v
  <2>1. 10 * q + r = 10 * m + v
    BY <1>2
  <2>2. q \in Nat /\ m \in Nat
    BY MaxPartNat
  <2> QED
    BY <2>1, <2>2
<1> QED
  BY <1>2, <1>3

(* Zeros write zero. *)
LEMMA Zeros ==
  ASSUME NEW d \in Seq(Ten), \A k \in 1..Len(d) : d[k] = "0"
  PROVE  Writes(d, 0)
<1>1. Len(d) \in Nat /\ Len(d) + 1 \in 1..(Len(d) + 1) /\ (Len(d) + 1) - 1 = Len(d)
  OBVIOUS
<1> QED
  BY <1>1 DEF Writes

(* What is written in front of the last digit. *)
LEMMA WritesAppend ==
  ASSUME NEW d \in Seq(Ten), NEW v \in 0..9, NEW m \in 0..MaxPart, Writes(d, m),
         NEW n \in 0..MaxPart, n = 10 * m + v
  PROVE  Writes(Append(d, DigitOf[v + 1]), n)
<1> DEFINE c == DigitOf[v + 1]
           e == Append(d, c)
<1>1. c \in Ten
  BY TenDigits
<1> HIDE DEF c
<1>2. PICK len \in Nat : len = Len(d)
  OBVIOUS
<1>3. e \in Seq(Ten) /\ Len(e) = len + 1 /\ (\A k \in 1..len : e[k] = d[k]) /\ e[len + 1] = c
  BY <1>1, <1>2
<1> HIDE DEF e
<1>4. PICK z \in 1..(len + 1) : /\ \A k \in 1..(z - 1) : d[k] = "0"
                                /\ \/ SubSeq(d, z, len) = Decimal[m]
                                   \/ m = 0 /\ z = len + 1
  BY <1>2 DEF Writes
<1>5. \A y \in 1..(len + 1) : /\ SubSeq(e, y, len + 1) = Append(SubSeq(d, y, len), c)
                              /\ SubSeq(d, y, len) \in Seq(Ten)
  BY <1>1, <1>2, AppendEnd DEF e
<1>6. \A k \in 1..(z - 1) : e[k] = "0"
  BY <1>3, <1>4
<1>7. CASE m # 0
  <2>1. SubSeq(d, z, len) = Decimal[m] /\ m \in 1..MaxPart
    BY <1>4, <1>7
  <2>2. Decimal[n] = Append(Decimal[m], c)
    BY <2>1, DecimalAppend DEF c
  <2>3. SubSeq(e, z, len + 1) = Decimal[n]
    BY <1>5, <2>1, <2>2
  <2>4. z \in 1..((len + 1) + 1)
    OBVIOUS
  <2> QED
    BY <1>3, <1>6, <2>3, <2>4 DEF Writes, e, c
<1>8. CASE m = 0
  <2>1. n = v /\ v < 10
    BY <1>8
  <2>2. Decimal[n] = <<c>>
    BY <2>1, DecimalPlaces DEF c
  <2>3. \A k \in 1..len : d[k] = "0"
    <3>1. CASE z = len + 1
      BY <1>4, <3>1
    <3>2. CASE z # len + 1
      <4>1. SubSeq(d, z, len) = <<"0">>
        <5>1. m < 10 /\ m + 1 = 1 /\ DigitOf[1] = "0"
          BY <1>8 DEF DigitOf
        <5>2. Decimal[m] = <<DigitOf[m + 1]>>
          BY <5>1, DecimalPlaces
        <5> QED
          BY <1>4, <3>2, <5>1, <5>2
      <4>2. z \in Int /\ len \in Int /\ \A i \in z..len : d[i] \in Ten
        BY <1>2
      <4>3. /\ Len(SubSeq(d, z, len)) = IF z <= len THEN len - z + 1 ELSE 0
            /\ \A i \in 1..(len - z + 1) : SubSeq(d, z, len)[i] = d[z + i - 1]
        BY <4>2, SubSeqProperties
      <4>4. PICK s : s = SubSeq(d, z, len)
        OBVIOUS
      <4>5. Len(s) = 1 /\ s[1] = "0"
        BY <4>1, <4>4
      <4>6. z = len
        BY <3>2, <4>3, <4>4, <4>5
      <4>7. d[z] = "0"
        <5>1. 1 \in 1..(len - z + 1) /\ z + 1 - 1 = z
          BY <4>6
        <5> QED
          BY <4>3, <4>4, <4>5, <5>1
      <4> QED
        BY <1>4, <4>6, <4>7
    <3> QED
      BY <3>1, <3>2
  <2>4. SubSeq(e, len + 1, len + 1) = Decimal[n]
    <3>1. len + 1 \in 1..(len + 1)
      OBVIOUS
    <3>2. SubSeq(d, len + 1, len) = <<>>
      <4>1. PICK y \in Int : y = len + 1
        OBVIOUS
      <4>2. len \in Int /\ len < y
        BY <4>1
      <4> QED
        BY <4>1, <4>2, SubSeqEmpty
    <3>3. Append(<<>>, c) = <<c>>
      OBVIOUS
    <3> QED
      BY <1>5, <2>2, <3>1, <3>2, <3>3
  <2>5. len + 1 \in 1..((len + 1) + 1) /\ \A k \in 1..((len + 1) - 1) : e[k] = "0"
    BY <1>3, <2>3
  <2> QED
    BY <1>3, <2>4, <2>5 DEF Writes, e, c
<1> QED
  BY <1>7, <1>8

(* And back: the last digit off a numeral. *)
LEMMA WritesLast ==
  ASSUME NEW d \in Seq(Ten), NEW v \in 0..9, NEW n \in 0..MaxPart,
         Writes(Append(d, DigitOf[v + 1]), n)
  PROVE  \E m \in 0..MaxPart : Writes(d, m) /\ n = 10 * m + v
<1> DEFINE c == DigitOf[v + 1]
           e == Append(d, c)
<1>1. c \in Ten /\ ValueOf[c] = v
  BY TenDigits, DigitValues
<1> HIDE DEF c
<1>2. PICK len \in Nat : len = Len(d)
  OBVIOUS
<1>3. e \in Seq(Ten) /\ Len(e) = len + 1 /\ (\A k \in 1..len : e[k] = d[k]) /\ e[len + 1] = c
  BY <1>1, <1>2
<1>4. \A y \in 1..(len + 1) : /\ SubSeq(e, y, len + 1) = Append(SubSeq(d, y, len), c)
                              /\ SubSeq(d, y, len) \in Seq(Ten)
  BY <1>1, <1>2, AppendEnd
<1> HIDE DEF e
<1>5. PICK z \in 1..((len + 1) + 1) : /\ \A k \in 1..(z - 1) : e[k] = "0"
                                      /\ \/ SubSeq(e, z, len + 1) = Decimal[n]
                                         \/ n = 0 /\ z = (len + 1) + 1
  BY <1>3 DEF Writes, e, c
<1>6. 0 \in 0..MaxPart /\ n \in Nat
  BY MaxPartNat
<1>7. (\A k \in 1..len : d[k] = "0") => Writes(d, 0)
  BY <1>2, Zeros
<1>8. CASE z = (len + 1) + 1 /\ n = 0
  <2>1. \A k \in 1..len : d[k] = "0"
    BY <1>3, <1>5, <1>8
  <2>2. c = "0"
    <3>1. len + 1 \in 1..(z - 1)
      BY <1>8
    <3> QED
      BY <1>3, <1>5, <3>1
  <2>3. v = 0
    <3>1. DigitOf[0 + 1] = "0" /\ 0 \in 0..9
      BY DEF DigitOf
    <3> QED
      BY <1>1, <2>2, <3>1, DigitValues
  <2>4. n = 10 * 0 + v
    BY <1>8, <2>3
  <2> QED
    BY <1>6, <1>7, <2>1, <2>4
<1>9. CASE SubSeq(e, z, len + 1) = Decimal[n]
  <2>1. Len(Decimal[n]) \in 1..5 /\ Decimal[n] \in Seq(Ten)
    BY DecimalShape
  <2>2. z \in 1..(len + 1)
    <3> SUFFICES ASSUME z = (len + 1) + 1
                 PROVE  FALSE
      OBVIOUS
    <3>1. PICK y \in Int, l \in Int : y = z /\ l = len + 1
      OBVIOUS
    <3>2. l < y
      BY <3>1
    <3>3. SubSeq(e, y, l) = <<>>
      BY <3>2, SubSeqEmpty
    <3>4. Decimal[n] = <<>>
      BY <1>9, <3>1, <3>3
    <3> QED
      BY <2>1, <3>4
  <2>3. Decimal[n] = Append(SubSeq(d, z, len), c) /\ SubSeq(d, z, len) \in Seq(Ten)
    BY <1>4, <1>9, <2>2
  <2>4. \A k \in 1..(z - 1) : d[k] = "0"
    BY <1>3, <1>5, <2>2
  <2>5. CASE n < 10
    <3>1. Decimal[n] = <<DigitOf[n + 1]>> /\ n \in 0..9
      BY <1>6, <2>5, DecimalPlaces
    <3>2. Decimal[n] = Append(<<>>, DigitOf[n + 1]) /\ DigitOf[n + 1] \in Ten /\ <<>> \in Seq(Ten)
      BY <3>1, TenDigits
    <3>3. SubSeq(d, z, len) = <<>> /\ c = DigitOf[n + 1]
      <4>1. PICK s \in Seq(Ten), t \in Seq(Ten), x \in Ten :
              s = SubSeq(d, z, len) /\ t = <<>> /\ x = DigitOf[n + 1]
        BY <2>3, <3>2
      <4>2. Append(s, c) = Append(t, x)
        BY <2>3, <3>2, <4>1
      <4>3. c \in Ten
        BY <1>1
      <4>4. s = t /\ c = x
        BY <4>2, <4>3, AppendSame
      <4> QED
        BY <4>1, <4>4
    <3>4. n = v
      BY <1>1, <3>1, <3>3, DigitValues
    <3>5. z = len + 1
      <4> SUFFICES ASSUME z # len + 1
                   PROVE  FALSE
        OBVIOUS
      <4>1. z \in Int /\ len \in Int /\ \A i \in z..len : d[i] \in Ten
        BY <1>2
      <4>2. Len(SubSeq(d, z, len)) = IF z <= len THEN len - z + 1 ELSE 0
        BY <4>1, SubSeqProperties
      <4>3. Len(SubSeq(d, z, len)) = len - z + 1 /\ len - z + 1 > 0
        BY <2>2, <4>2
      <4>4. PICK s : s = SubSeq(d, z, len)
        OBVIOUS
      <4>5. s = <<>> /\ Len(s) > 0
        BY <3>3, <4>3, <4>4
      <4> QED
        BY <4>5
    <3>6. Writes(d, 0)
      BY <1>7, <2>4, <3>5
    <3>7. n = 10 * 0 + v
      BY <1>6, <3>4
    <3> QED
      BY <1>6, <3>6, <3>7
  <2>6. CASE n >= 10
    <3>1. PICK m \in 1..MaxPart, r \in 0..9 :
            m = n \div 10 /\ r = n % 10 /\ Decimal[n] = Append(Decimal[m], DigitOf[r + 1]) /\ n = 10 * m + r
      BY <2>6, DecimalPlaces
    <3>2. m \in 0..MaxPart
      BY MaxPartNat
    <3>3. Decimal[m] \in Seq(Ten) /\ DigitOf[r + 1] \in Ten
      BY <3>2, DecimalShape, TenDigits
    <3>4. SubSeq(d, z, len) = Decimal[m] /\ c = DigitOf[r + 1]
      <4>1. PICK s \in Seq(Ten), t \in Seq(Ten), x \in Ten :
              s = SubSeq(d, z, len) /\ t = Decimal[m] /\ x = DigitOf[r + 1]
        BY <2>3, <3>3
      <4>2. Append(s, c) = Append(t, x)
        BY <2>3, <3>1, <4>1
      <4>3. c \in Ten
        BY <1>1
      <4>4. s = t /\ c = x
        BY <4>2, <4>3, AppendSame
      <4> QED
        BY <4>1, <4>4
    <3>5. r = v
      BY <1>1, <3>4, DigitValues
    <3>6. Writes(d, m)
      BY <1>2, <2>2, <2>4, <3>4 DEF Writes
    <3> QED
      BY <3>1, <3>2, <3>5, <3>6
  <2> QED
    BY <1>6, <2>5, <2>6
<1> QED
  BY <1>5, <1>8, <1>9

(* A sequence, element by element. *)
LEMMA PrefixEnds ==
  ASSUME NEW S, NEW s \in Seq(S)
  PROVE  Len(s) \in Nat /\ SubSeq(s, 1, 0) = <<>> /\ SubSeq(s, 1, Len(s)) = s
<1>1. PICK y \in Int, l \in Int : y = 1 /\ l = 0
  OBVIOUS
<1>2. SubSeq(s, y, l) = <<>>
  BY <1>1, SubSeqEmpty
<1> QED
  BY <1>1, <1>2, SubSeqFull

(* A longer prefix has the next element at its end. *)
LEMMA PrefixNext ==
  ASSUME NEW S, NEW s \in Seq(S), NEW m \in 0..(Len(s) - 1)
  PROVE  /\ SubSeq(s, 1, m) \in Seq(S) /\ s[m + 1] \in S
         /\ SubSeq(s, 1, m + 1) = Append(SubSeq(s, 1, m), s[m + 1])
<1>1. Len(s) \in Nat /\ m \in Nat /\ m + 1 \in 1..Len(s)
  OBVIOUS
<1>2. SubSeq(s, 1, m) \in Seq(S) /\ s[m + 1] \in S
  <2>1. PICK y \in Int, l \in Int : y = 1 /\ l = m
    BY <1>1
  <2>2. \A i \in y..l : s[i] \in S
    BY <1>1, <2>1
  <2>3. SubSeq(s, y, l) \in Seq(S)
    BY <2>2, SubSeqProperties
  <2> QED
    BY <1>1, <2>1, <2>3
<1>3. PICK y \in 1..Len(s) : \E l \in y..Len(s) : y = 1 /\ l = m + 1
  BY <1>1
<1>4. PICK l \in y..Len(s) : y = 1 /\ l = m + 1
  BY <1>3
<1>5. SubSeq(s, y, l) = SubSeq(s, y, l - 1) \o <<s[l]>>
  BY SubSeqRecursiveSecond
<1>6. l - 1 = m
  BY <1>1, <1>4
<1>7. SubSeq(s, 1, m) \o <<s[m + 1]>> = Append(SubSeq(s, 1, m), s[m + 1])
  BY <1>2
<1> QED
  BY <1>2, <1>4, <1>5, <1>6, <1>7

(* ParseNumber finds the number that the digits write, or one above MaxPart. *)
LEMMA ParseReads ==
  ASSUME NEW digits \in Seq(Ten)
  PROVE  /\ ParseNumber(digits) \in Nat
         /\ \A n \in 0..MaxPart : Writes(digits, n) <=> ParseNumber(digits) = n
<1> DEFINE len == Len(digits)
           first(m) == SubSeq(digits, 1, m)
           Right(d) == /\ ParseNumber(d) \in Nat
                       /\ \A n \in 0..MaxPart : Writes(d, n) <=> ParseNumber(d) = n
           T == {m \in 0..len : Right(first(m))}
<1>1. Right(<<>>)
  <2>1. PICK d : d = <<>>
    OBVIOUS
  <2>2. d \in Seq(Ten) /\ Len(d) = 0 /\ \A k \in 1..Len(d) : d[k] = "0"
    BY <2>1
  <2>3. ParseNumber(d) = 0
    BY <2>1, ParseStep
  <2>4. Writes(d, 0)
    BY <2>2, Zeros
  <2>5. ASSUME NEW n \in 0..MaxPart, Writes(d, n)
        PROVE  n = 0
    <3>1. PICK z \in 1..(Len(d) + 1) : \/ SubSeq(d, z, Len(d)) = Decimal[n]
                                       \/ n = 0 /\ z = Len(d) + 1
      BY <2>5 DEF Writes
    <3>2. PICK y \in Int, l \in Int : y = z /\ l = Len(d) /\ l < y
      BY <2>2
    <3>3. SubSeq(d, y, l) = <<>>
      BY <3>2, SubSeqEmpty
    <3>4. Len(Decimal[n]) # 0
      BY DecimalShape
    <3> QED
      BY <3>1, <3>2, <3>3, <3>4
  <2> QED
    BY <2>1, <2>3, <2>4, <2>5
<1>2. ASSUME NEW d \in Seq(Ten), NEW c \in Ten, Right(d)
      PROVE  Right(Append(d, c))
  <2>1. PICK v \in 0..9 : v = ValueOf[c] /\ c = DigitOf[v + 1]
    BY DigitValues
  <2>2. PICK p \in Nat : p = ParseNumber(d)
    BY <1>2
  <2>3. PICK q : q = ParseNumber(Append(d, c))
    OBVIOUS
  <2>4. q = IF p > MaxPart THEN p ELSE 10 * p + v
    BY <2>1, <2>2, <2>3, ParseStep
  <2>5. q \in Nat
    BY <2>4
  <2>6. ASSUME NEW n \in 0..MaxPart, Writes(Append(d, c), n)
        PROVE  q = n
    <3>1. PICK m \in 0..MaxPart : Writes(d, m) /\ n = 10 * m + v
      BY <2>1, <2>6, WritesLast
    <3>2. p = m
      BY <1>2, <2>2, <3>1
    <3>3. ~ (p > MaxPart)
      BY <3>2, MaxPartNat
    <3> QED
      BY <2>4, <3>1, <3>2, <3>3
  <2>7. ASSUME NEW n \in 0..MaxPart, q = n
        PROVE  Writes(Append(d, c), n)
    <3>1. ~ (p > MaxPart)
      BY <2>4, <2>7, MaxPartNat
    <3>2. p \in 0..MaxPart /\ n = 10 * p + v
      BY <2>4, <2>7, <3>1, MaxPartNat
    <3>3. Writes(d, p)
      BY <1>2, <2>2, <3>2
    <3> QED
      BY <2>1, <3>2, <3>3, WritesAppend
  <2> QED
    BY <2>3, <2>5, <2>6, <2>7
<1>3. len \in Nat /\ first(0) = <<>> /\ first(len) = digits
  BY PrefixEnds
<1>4. ASSUME NEW m \in 0..(len - 1), m \in T
      PROVE  m + 1 \in T
  <2>1. m + 1 \in 1..len /\ m \in 0..len /\ m + 1 \in 0..len
    BY <1>3
  <2>2. /\ first(m) \in Seq(Ten) /\ digits[m + 1] \in Ten
        /\ first(m + 1) = Append(first(m), digits[m + 1])
    BY PrefixNext
  <2>4. Right(first(m))
    BY <1>4
  <2> HIDE DEF Right, first
  <2> QED
    BY <1>2, <2>1, <2>2, <2>4
<1> HIDE DEF first, Right, len
<1>5. 0 \in T
  BY <1>1, <1>3
<1> HIDE DEF T
<1>6. \A m \in 0..len : m \in T
  BY <1>3, <1>4, <1>5, H!Induction
<1>7. len \in T
  BY <1>3, <1>6
<1>8. Right(digits)
  BY <1>3, <1>7 DEF T
<1> QED
  BY <1>8 DEF Right

-------------------------------------------------------------------------------
(* The components of a version.                                              *)

(* SplitAtDots folds this over the characters: a dot begins a part. *)
SplitStep(parts, c) ==
  IF c = "." THEN Append(parts, <<>>) ELSE [parts EXCEPT ![Len(parts)] = Append(@, c)]
D == INSTANCE FoldLemmas WITH Op <- SplitStep

(* SplitAtDots as the fold that FoldLemmas is about. *)
LEMMA SplitIsFold == \A text : SplitAtDots(text) = D!Fold(<<<<>>>>, text)
BY DEF SplitAtDots, D!Fold, SplitStep, FoldLeft, D!FoldLeft, MapThenFoldSet, D!MapThenFoldSet, Max, D!Max

(* A component of a text begins there, behind as many dots as come before it. *)
PartAt(text, part, j, first) ==
  /\ first = 1 \/ text[first - 1] = "."
  /\ Cardinality(DotsBefore(text, first)) = j - 1
  /\ \A k \in 1..Len(part) : part[k] = text[first + k - 1]

(* The first m characters of a text, split: only the last part may go on. *)
IsSplit(text, m, parts) ==
  /\ IsFiniteSet(DotsBefore(text, m + 1))
  /\ Cardinality(DotsBefore(text, m + 1)) = Len(parts) - 1
  /\ \A j \in 1..Len(parts) : \E first \in 1..(m + 1) :
       /\ PartAt(text, parts[j], j, first)
       /\ IF j = Len(parts) THEN first + Len(parts[j]) = m + 1
          ELSE first + Len(parts[j]) <= m /\ text[first + Len(parts[j])] = "."

(* An empty text is one part without characters. *)
LEMMA SplitEmpty ==
  ASSUME NEW text
  PROVE  IsSplit(text, 0, <<<<>>>>)
<1>1. PICK parts, e : e = <<>> /\ parts = <<e>>
  OBVIOUS
<1>2. Len(parts) = 1 /\ parts[1] = e /\ Len(e) = 0
  BY <1>1
<1>3. IsFiniteSet(DotsBefore(text, 1)) /\ Cardinality(DotsBefore(text, 1)) = 0
  BY DotsNone
<1>4. 0 + 1 = 1
  OBVIOUS
<1>5. PartAt(text, e, 1, 1)
  BY <1>2, <1>3 DEF PartAt
<1>6. \A j \in 1..Len(parts) : j = 1
  BY <1>2
<1>7. 1 \in 1..(0 + 1) /\ 1 + Len(e) = 0 + 1
  BY <1>2
<1> QED
  BY <1>1, <1>2, <1>3, <1>4, <1>5, <1>6, <1>7 DEF IsSplit

(* A dot ends the last part. *)
LEMMA SplitDot ==
  ASSUME NEW S, NEW text, NEW m \in Nat, NEW parts \in Seq(Seq(S)), Len(parts) >= 1,
         IsSplit(text, m, parts), text[m + 1] = "."
  PROVE  /\ Append(parts, <<>>) \in Seq(Seq(S)) /\ Len(Append(parts, <<>>)) >= 1
         /\ IsSplit(text, m + 1, Append(parts, <<>>))
<1>1. PICK n \in Nat \ {0} : n = Len(parts)
  OBVIOUS
<1>2. PICK e \in Seq(S) : e = <<>>
  BY EmptySeq
<1>3. Len(e) = 0
  BY <1>2
<1>4. PICK more : more = Append(parts, e)
  OBVIOUS
<1>5. /\ more \in Seq(Seq(S)) /\ Len(more) = n + 1
      /\ \A j \in 1..n : more[j] = parts[j]
      /\ more[n + 1] = e
  BY <1>1, <1>4
<1>6. /\ IsFiniteSet(DotsBefore(text, (m + 1) + 1))
      /\ Cardinality(DotsBefore(text, (m + 1) + 1)) = n
  <2>1. PICK f \in Nat \ {0}, l \in Nat, k \in Nat : f = m + 1 /\ l = 0 /\ k = n - 1
    <3>1. m + 1 \in Nat \ {0} /\ 0 \in Nat /\ n - 1 \in Nat
      OBVIOUS
    <3> QED
      BY <3>1
  <2>2. /\ \A i \in f..(f + l - 1) : text[i] \in Ten
        /\ text[f + l] = "."
        /\ IsFiniteSet(DotsBefore(text, f)) /\ Cardinality(DotsBefore(text, f)) = k
    BY <1>1, <2>1 DEF IsSplit
  <2>3. IsFiniteSet(DotsBefore(text, f + l + 1)) /\ Cardinality(DotsBefore(text, f + l + 1)) = k + 1
    BY <2>2, DotsMore
  <2>4. f + l + 1 = (m + 1) + 1 /\ k + 1 = n
    BY <1>1, <2>1
  <2> QED
    BY <2>3, <2>4
<1>7. ASSUME NEW j \in 1..(n + 1)
      PROVE  \E first \in 1..((m + 1) + 1) :
               /\ PartAt(text, more[j], j, first)
               /\ IF j = n + 1 THEN first + Len(more[j]) = (m + 1) + 1
                  ELSE first + Len(more[j]) <= m + 1 /\ text[first + Len(more[j])] = "."
  <2>1. CASE j = n + 1
    <3>1. PICK f \in 1..((m + 1) + 1) : f = (m + 1) + 1
      OBVIOUS
    <3>2. f - 1 = m + 1 /\ n = j - 1
      BY <2>1, <3>1
    <3>3. PartAt(text, e, j, f)
      BY <1>3, <1>6, <3>1, <3>2 DEF PartAt
    <3>4. f + Len(e) = (m + 1) + 1
      BY <1>3, <3>1
    <3> QED
      BY <1>5, <2>1, <3>3, <3>4
  <2>2. CASE j # n + 1
    <3>1. j \in 1..n /\ more[j] = parts[j]
      BY <1>5, <2>2
    <3>2. PICK f \in 1..(m + 1) :
            /\ PartAt(text, parts[j], j, f)
            /\ IF j = n THEN f + Len(parts[j]) = m + 1
               ELSE f + Len(parts[j]) <= m /\ text[f + Len(parts[j])] = "."
      BY <1>1, <3>1 DEF IsSplit
    <3>3. parts[j] \in Seq(S)
      BY <1>1, <3>1
    <3>4. PICK l \in Nat : l = Len(parts[j])
      BY <3>3
    <3>5. f + l <= m + 1 /\ text[f + l] = "."
      BY <3>2, <3>4
    <3>6. f \in 1..((m + 1) + 1)
      OBVIOUS
    <3> QED
      BY <2>2, <3>1, <3>2, <3>4, <3>5, <3>6
  <2> QED
    BY <2>1, <2>2
<1>8. IsSplit(text, m + 1, more)
  <2>1. n = Len(more) - 1
    BY <1>5
  <2> QED
    BY <1>5, <1>6, <1>7, <2>1 DEF IsSplit
<1> QED
  BY <1>2, <1>4, <1>5, <1>8

(* Another character goes on with it. *)
LEMMA SplitCharacter ==
  ASSUME NEW S, NEW text, NEW m \in Nat, NEW parts \in Seq(Seq(S)), Len(parts) >= 1,
         IsSplit(text, m, parts), text[m + 1] # ".", text[m + 1] \in S
  PROVE  LET more == [parts EXCEPT ![Len(parts)] = Append(@, text[m + 1])]
         IN  more \in Seq(Seq(S)) /\ Len(more) >= 1 /\ IsSplit(text, m + 1, more)
<1>1. PICK n \in Nat \ {0} : n = Len(parts)
  OBVIOUS
<1>2. PICK p \in Seq(S), c \in S : p = parts[n] /\ c = text[m + 1]
  BY <1>1
<1>3. PICK q \in Seq(S) : q = Append(p, c)
  <2>1. Append(p, c) \in Seq(S)
    OBVIOUS
  <2> QED
    BY <2>1
<1>4. PICK l \in Nat : l = Len(p)
  OBVIOUS
<1>5. Len(q) = l + 1 /\ (\A k \in 1..l : q[k] = p[k]) /\ q[l + 1] = c
  BY <1>3, <1>4
<1>6. PICK more : more = [parts EXCEPT ![n] = q]
  OBVIOUS
<1>7. /\ more \in Seq(Seq(S)) /\ Len(more) = n
      /\ \A j \in 1..n : more[j] = IF j = n THEN q ELSE parts[j]
  <2>1. n \in 1..Len(parts)
    BY <1>1
  <2> QED
    BY <1>1, <1>6, <2>1, ExceptSeq
<1>8. DotsBefore(text, (m + 1) + 1) = DotsBefore(text, m + 1)
  <2>1. \A k \in 1..(m + 1) : text[k] = "." => k \in 1..m
    OBVIOUS
  <2>2. \A k \in 1..m : k \in 1..(m + 1)
    OBVIOUS
  <2>3. ((m + 1) + 1) - 1 = m + 1 /\ (m + 1) - 1 = m
    OBVIOUS
  <2> QED
    BY <2>1, <2>2, <2>3 DEF DotsBefore
<1>9. ASSUME NEW j \in 1..n
      PROVE  \E first \in 1..((m + 1) + 1) :
               /\ PartAt(text, more[j], j, first)
               /\ IF j = n THEN first + Len(more[j]) = (m + 1) + 1
                  ELSE first + Len(more[j]) <= m + 1 /\ text[first + Len(more[j])] = "."
  <2>1. PICK f \in 1..(m + 1) :
          /\ PartAt(text, parts[j], j, f)
          /\ IF j = n THEN f + Len(parts[j]) = m + 1
             ELSE f + Len(parts[j]) <= m /\ text[f + Len(parts[j])] = "."
    BY <1>1 DEF IsSplit
  <2>2. f \in 1..((m + 1) + 1)
    OBVIOUS
  <2>3. CASE j = n
    <3>1. f + l = m + 1 /\ more[j] = q
      BY <1>2, <1>4, <1>7, <2>1, <2>3
    <3>2. \A k \in 1..l : p[k] = text[f + k - 1]
      BY <1>2, <1>4, <2>1, <2>3 DEF PartAt
    <3>3. q[l + 1] = text[f + (l + 1) - 1]
      <4>1. f + (l + 1) - 1 = m + 1
        BY <3>1
      <4> QED
        BY <1>2, <1>5, <4>1
    <3>4. \A k \in 1..(l + 1) : q[k] = text[f + k - 1]
      <4> SUFFICES ASSUME NEW k \in 1..(l + 1)
                   PROVE  q[k] = text[f + k - 1]
        OBVIOUS
      <4>1. k = l + 1 \/ k \in 1..l
        OBVIOUS
      <4> QED
        BY <1>5, <3>2, <3>3, <4>1
    <3>5. PartAt(text, q, j, f)
      BY <1>5, <2>1, <3>4 DEF PartAt
    <3>6. f + (l + 1) = (m + 1) + 1
      BY <3>1
    <3> QED
      BY <1>5, <2>2, <2>3, <3>1, <3>5, <3>6
  <2>4. CASE j # n
    <3>1. more[j] = parts[j]
      BY <1>7, <2>4
    <3>2. PICK k \in Nat : k = Len(parts[j])
      BY <1>1
    <3>3. f + k <= m + 1 /\ text[f + k] = "."
      BY <2>1, <2>4, <3>2
    <3> QED
      BY <2>1, <2>2, <2>4, <3>1, <3>2, <3>3
  <2> QED
    BY <2>3, <2>4
<1>10. IsSplit(text, m + 1, more)
  BY <1>1, <1>7, <1>8, <1>9 DEF IsSplit
<1>11. more = [parts EXCEPT ![Len(parts)] = Append(@, text[m + 1])]
  BY <1>1, <1>2, <1>3, <1>6
<1> QED
  BY <1>7, <1>10, <1>11

(* SplitAtDots cuts a text at its dots, and nowhere else. *)
LEMMA SplitReads ==
  ASSUME NEW S, NEW text \in Seq(S)
  PROVE  /\ SplitAtDots(text) \in Seq(Seq(S)) /\ Len(SplitAtDots(text)) >= 1
         /\ IsSplit(text, Len(text), SplitAtDots(text))
<1> DEFINE len == Len(text)
           first(m) == SubSeq(text, 1, m)
           Right(m, parts) == parts \in Seq(Seq(S)) /\ Len(parts) >= 1 /\ IsSplit(text, m, parts)
           T == {m \in 0..len : Right(m, SplitAtDots(first(m)))}
<1>1. len \in Nat /\ first(0) = <<>> /\ first(len) = text
  BY PrefixEnds
<1>2. Right(0, SplitAtDots(<<>>))
  <2>1. SplitAtDots(<<>>) = <<<<>>>>
    BY SplitIsFold, D!FoldEmpty
  <2>2. PICK e \in Seq(S) : e = <<>>
    BY EmptySeq
  <2>3. <<e>> \in Seq(Seq(S)) /\ Len(<<e>>) >= 1
    BY <2>2
  <2> QED
    BY <2>1, <2>2, <2>3, SplitEmpty
<1>3. ASSUME NEW m \in 0..(len - 1), m \in T
      PROVE  m + 1 \in T
  <2>1. m \in Nat /\ m + 1 \in 0..len
    BY <1>1
  <2>2. /\ first(m) \in Seq(S) /\ text[m + 1] \in S
        /\ first(m + 1) = Append(first(m), text[m + 1])
    BY PrefixNext
  <2>3. PICK parts : parts = SplitAtDots(first(m))
    OBVIOUS
  <2>4. parts \in Seq(Seq(S)) /\ Len(parts) >= 1 /\ IsSplit(text, m, parts)
    BY <1>3, <2>3
  <2>5. SplitAtDots(first(m + 1)) = SplitStep(parts, text[m + 1])
    <3> HIDE DEF first
    <3>1. D!Fold(<<<<>>>>, Append(first(m), text[m + 1])) =
            SplitStep(D!Fold(<<<<>>>>, first(m)), text[m + 1])
      BY <2>2, D!FoldAppend
    <3> QED
      BY <2>2, <2>3, <3>1, SplitIsFold
  <2>6. Right(m + 1, SplitStep(parts, text[m + 1]))
    <3>1. CASE text[m + 1] = "."
      BY <2>1, <2>4, <3>1, SplitDot DEF SplitStep
    <3>2. CASE text[m + 1] # "."
      BY <2>1, <2>2, <2>4, <3>2, SplitCharacter DEF SplitStep
    <3> QED
      BY <3>1, <3>2
  <2> HIDE DEF Right, first
  <2> QED
    BY <2>1, <2>5, <2>6
<1> HIDE DEF first, Right, len
<1>4. 0 \in T
  BY <1>1, <1>2
<1> HIDE DEF T
<1>5. \A m \in 0..len : m \in T
  BY <1>1, <1>3, <1>4, D!Induction
<1>6. len \in T
  BY <1>1, <1>5
<1>7. Right(len, SplitAtDots(text))
  BY <1>1, <1>6 DEF T
<1> QED
  BY <1>7 DEF Right, len

(* The digits that a part begins with. *)
LEMMA LeadingSpec ==
  ASSUME NEW S, NEW part \in Seq(S)
  PROVE  \E q \in 0..Len(part) :
           /\ LeadingDigits(part) \in Seq(Ten) /\ Len(LeadingDigits(part)) = q
           /\ \A k \in 1..q : LeadingDigits(part)[k] = part[k] /\ part[k] \in Ten
           /\ q = Len(part) \/ part[q + 1] \notin Ten
<1> DEFINE Bad == {j \in 1..(Len(part) + 1) : j = Len(part) + 1 \/ part[j] \notin Ten}
<1>1. PICK b \in Bad : \A y \in Bad : b <= y
  <2>1. Bad \subseteq Nat /\ Len(part) + 1 \in Bad
    OBVIOUS
  <2> HIDE DEF Bad
  <2> QED
    BY <2>1, H!Least
<1>2. PICK q \in 0..Len(part) : q = b - 1
  <2>1. b \in 1..(Len(part) + 1) /\ Len(part) \in Nat
    OBVIOUS
  <2> QED
    BY <2>1
<1>3. q = Len(part) \/ part[q + 1] \notin Ten
  BY <1>1, <1>2
<1>4. \A k \in 1..q : part[k] \in Ten /\ k \in 1..Len(part)
  <2> SUFFICES ASSUME NEW k \in 1..q
               PROVE  part[k] \in Ten /\ k \in 1..Len(part)
    OBVIOUS
  <2>1. k \in 1..Len(part) /\ ~ (b <= k)
    BY <1>2
  <2>2. k \notin Bad
    BY <1>1, <2>1
  <2> QED
    BY <2>1, <2>2
<1> HIDE DEF Bad
<1>5. {i \in DOMAIN part : \A j \in 1..i : part[j] \in Ten} = 1..q
  <2>1. DOMAIN part = 1..Len(part) /\ Len(part) \in Nat
    OBVIOUS
  <2>2. ASSUME NEW i \in 1..q
        PROVE  i \in 1..Len(part) /\ \A j \in 1..i : part[j] \in Ten
    BY <1>4
  <2>3. ASSUME NEW i \in 1..Len(part), \A j \in 1..i : part[j] \in Ten
        PROVE  i \in 1..q
    <3>1. CASE q = Len(part)
      BY <3>1
    <3>2. CASE q # Len(part)
      <4>1. q + 1 \notin 1..i
        BY <1>3, <2>3, <3>2
      <4> QED
        BY <4>1
    <3> QED
      BY <3>1, <3>2
  <2> QED
    BY <2>1, <2>2, <2>3
<1>6. Cardinality(1..q) = q
  <2>1. PICK a \in Int : a = 1
    OBVIOUS
  <2>2. Cardinality(a..q) = IF a > q THEN 0 ELSE q - a + 1
    BY FS_Interval
  <2> QED
    BY <2>1, <2>2
<1>7. LeadingDigits(part) = SubSeq(part, 1, q)
  BY <1>5, <1>6 DEF LeadingDigits, Ten
<1>8. /\ SubSeq(part, 1, q) \in Seq(Ten) /\ Len(SubSeq(part, 1, q)) = q
      /\ \A k \in 1..q : SubSeq(part, 1, q)[k] = part[k]
  <2>1. PICK a \in Int : a = 1
    OBVIOUS
  <2>2. \A k \in a..q : part[k] \in Ten
    BY <1>4, <2>1
  <2>3. /\ SubSeq(part, a, q) \in Seq(Ten)
        /\ Len(SubSeq(part, a, q)) = IF a <= q THEN q - a + 1 ELSE 0
        /\ \A k \in 1..(q - a + 1) : SubSeq(part, a, q)[k] = part[a + k - 1]
    BY <2>2, SubSeqProperties
  <2>4. (IF a <= q THEN q - a + 1 ELSE 0) = q /\ q - a + 1 = q /\ \A k \in 1..q : a + k - 1 = k
    BY <2>1
  <2> QED
    BY <2>1, <2>3, <2>4
<1> QED
  BY <1>3, <1>4, <1>7, <1>8

(* The part of a text that digits are a copy of. *)
LEMMA SamePart ==
  ASSUME NEW text, NEW d \in Seq(Ten), NEW f \in Nat \ {0},
         \A k \in 1..Len(d) : d[k] = text[f + k - 1],
         NEW z \in 1..(Len(d) + 1)
  PROVE  SubSeq(text, f + z - 1, f + Len(d) - 1) = SubSeq(d, z, Len(d))
<1>1. PICK q \in Nat : q = Len(d)
  OBVIOUS
<1>2. PICK l \in Nat, a \in Int, b \in Int : l = q - z + 1 /\ a = f + z - 1 /\ b = f + q - 1
  <2>1. q - z + 1 \in Nat /\ f + z - 1 \in Int /\ f + q - 1 \in Int
    BY <1>1
  <2> QED
    BY <2>1
<1>3. PICK s : s = SubSeq(d, z, q)
  OBVIOUS
<1>4. s \in Seq(Ten) /\ Len(s) = l /\ \A k \in 1..l : s[k] = d[z + k - 1]
  <2>1. z \in Int /\ q \in Int /\ \A i \in z..q : d[i] \in Ten
    BY <1>1
  <2>2. /\ SubSeq(d, z, q) \in Seq(Ten)
        /\ Len(SubSeq(d, z, q)) = IF z <= q THEN q - z + 1 ELSE 0
        /\ \A k \in 1..(q - z + 1) : SubSeq(d, z, q)[k] = d[z + k - 1]
    BY <2>1, SubSeqProperties
  <2>3. (IF z <= q THEN q - z + 1 ELSE 0) = l /\ q - z + 1 = l
    BY <1>1, <1>2
  <2> QED
    BY <1>3, <2>2, <2>3
<1>5. PICK t : t = SubSeq(text, a, b)
  OBVIOUS
<1>6. \A k \in 1..l : text[a + k - 1] = d[z + k - 1] /\ d[z + k - 1] \in Ten
  <2> SUFFICES ASSUME NEW k \in 1..l
               PROVE  text[a + k - 1] = d[z + k - 1] /\ d[z + k - 1] \in Ten
    OBVIOUS
  <2>1. PICK i \in 1..q : i = z + k - 1 /\ a + k - 1 = f + i - 1
    <3>1. z + k - 1 \in 1..q /\ a + k - 1 = f + (z + k - 1) - 1
      BY <1>1, <1>2
    <3> QED
      BY <3>1
  <2>2. d[i] = text[f + i - 1] /\ d[i] \in Ten
    BY <1>1
  <2> QED
    BY <2>1, <2>2
<1>7. t \in Seq(Ten) /\ Len(t) = l /\ \A k \in 1..l : t[k] = text[a + k - 1]
  <2>1. \A i \in a..b : text[i] \in Ten
    <3> SUFFICES ASSUME NEW i \in a..b
                 PROVE  text[i] \in Ten
      OBVIOUS
    <3>1. PICK k \in 1..l : i = a + k - 1
      <4>1. i - a + 1 \in 1..l /\ i = a + (i - a + 1) - 1
        BY <1>1, <1>2
      <4> QED
        BY <4>1
    <3> QED
      BY <1>6, <3>1
  <2>2. /\ SubSeq(text, a, b) \in Seq(Ten)
        /\ Len(SubSeq(text, a, b)) = IF a <= b THEN b - a + 1 ELSE 0
        /\ \A k \in 1..(b - a + 1) : SubSeq(text, a, b)[k] = text[a + k - 1]
    BY <2>1, SubSeqProperties
  <2>3. (IF a <= b THEN b - a + 1 ELSE 0) = l /\ b - a + 1 = l
    BY <1>1, <1>2
  <2> QED
    BY <1>5, <2>2, <2>3
<1>8. \A k \in 1..l : t[k] = s[k]
  BY <1>4, <1>6, <1>7
<1>9. t = s
  BY <1>4, <1>7, <1>8, SeqEqual
<1> QED
  BY <1>1, <1>2, <1>3, <1>5, <1>9

(* A stretch of a text denotes what the digits in it write. *)
LEMMA Denoted ==
  ASSUME NEW text, NEW d \in Seq(Ten), NEW f \in Nat \ {0},
         \A k \in 1..Len(d) : d[k] = text[f + k - 1],
         NEW r, r = <<f, f + Len(d) - 1>>, NEW n
  PROVE  Denotes(text, r, n) <=> Writes(d, n)
<1>1. PICK q \in Nat : q = Len(d)
  OBVIOUS
<1>2. PICK b \in Int : b = f + q - 1
  OBVIOUS
<1>3. r[1] = f /\ r[2] = b
  BY <1>1, <1>2
<1>4. ASSUME NEW y \in 1..(q + 1), NEW z \in f..(b + 1), z = f + y - 1
      PROVE  /\ (\A k \in f..(z - 1) : text[k] = "0") <=> (\A k \in 1..(y - 1) : d[k] = "0")
             /\ SubSeq(text, z, b) = SubSeq(d, y, q)
             /\ z = b + 1 <=> y = q + 1
  <2>1. SubSeq(text, z, b) = SubSeq(d, y, q)
    BY <1>1, <1>2, <1>4, SamePart
  <2>2. z = b + 1 <=> y = q + 1
    BY <1>2, <1>4
  <2>3. ASSUME \A k \in f..(z - 1) : text[k] = "0", NEW k \in 1..(y - 1)
        PROVE  d[k] = "0"
    <3>1. f + k - 1 \in f..(z - 1) /\ k \in 1..q
      BY <1>4
    <3> QED
      BY <1>1, <2>3, <3>1
  <2>4. ASSUME \A k \in 1..(y - 1) : d[k] = "0", NEW k \in f..(z - 1)
        PROVE  text[k] = "0"
    <3>1. PICK j \in 1..q : j \in 1..(y - 1) /\ k = f + j - 1
      <4>1. k - f + 1 \in 1..q /\ k - f + 1 \in 1..(y - 1) /\ k = f + (k - f + 1) - 1
        BY <1>4
      <4> QED
        BY <4>1
    <3> QED
      BY <1>1, <2>4, <3>1
  <2> QED
    BY <2>1, <2>2, <2>3, <2>4
<1>5. ASSUME Denotes(text, r, n) PROVE Writes(d, n)
  <2>1. PICK z \in f..(b + 1) : /\ \A k \in f..(z - 1) : text[k] = "0"
                                /\ \/ SubSeq(text, z, b) = Decimal[n]
                                   \/ n = 0 /\ z = b + 1
    BY <1>3, <1>5 DEF Denotes
  <2>2. PICK y \in 1..(q + 1) : z = f + y - 1
    <3>1. z - f + 1 \in 1..(q + 1) /\ z = f + (z - f + 1) - 1
      BY <1>2
    <3> QED
      BY <3>1
  <2> QED
    BY <1>1, <1>4, <2>1, <2>2 DEF Writes
<1>6. ASSUME Writes(d, n) PROVE Denotes(text, r, n)
  <2>1. PICK y \in 1..(q + 1) : /\ \A k \in 1..(y - 1) : d[k] = "0"
                                /\ \/ SubSeq(d, y, q) = Decimal[n]
                                   \/ n = 0 /\ y = q + 1
    BY <1>1, <1>6 DEF Writes
  <2>2. PICK z \in f..(b + 1) : z = f + y - 1
    <3>1. f + y - 1 \in f..(b + 1)
      BY <1>2
    <3> QED
      BY <3>1
  <2> QED
    BY <1>3, <1>4, <2>1, <2>2 DEF Denotes
<1> QED
  BY <1>5, <1>6

(* A component is read as the number that its leading digits write. *)
LEMMA ComponentRead ==
  ASSUME NEW S, NEW text \in Seq(S), NEW i \in 1..4, NEW p, p = parse_product_version(text)[i]
  PROVE  /\ p \in Nat
         /\ p <= MaxPart => ReadsPart(text, i, p)
         /\ p > MaxPart => \E r \in Numerals(text, i) : \A n \in 0..MaxPart : ~ Denotes(text, r, n)
<1>1. PICK parts \in Seq(Seq(S)) : /\ parts = SplitAtDots(text) /\ Len(parts) >= 1
                                   /\ IsSplit(text, Len(text), parts)
  BY SplitReads
<1>2. p = IF i > Len(parts) THEN 0 ELSE ParseNumber(LeadingDigits(parts[i]))
  BY <1>1 DEF parse_product_version
<1>3. PICK len \in Nat, n \in Nat \ {0} : len = Len(text) /\ n = Len(parts)
  BY <1>1
<1>4. IsFiniteSet(DotsBefore(text, len + 1)) /\ Cardinality(DotsBefore(text, len + 1)) = n - 1
  BY <1>1, <1>3 DEF IsSplit
<1>5. CASE i > n
  <2>1. p = 0
    BY <1>2, <1>3, <1>5
  <2>2. Numerals(text, i) = {}
    <3> SUFFICES ASSUME NEW r \in Numerals(text, i)
                 PROVE  FALSE
      OBVIOUS
    <3>1. r[1] \in 1..(len + 1) /\ Cardinality(DotsBefore(text, r[1])) = i - 1
      BY <1>3 DEF Numerals, DotsBefore
    <3>2. DotsBefore(text, r[1]) \in SUBSET DotsBefore(text, len + 1)
      BY <3>1 DEF DotsBefore
    <3>3. Cardinality(DotsBefore(text, r[1])) <= Cardinality(DotsBefore(text, len + 1))
      BY <1>4, <3>2, FS_Subset
    <3> QED
      BY <1>4, <1>5, <3>1, <3>3
  <2>3. ~ (p > MaxPart) /\ p \in Nat
    BY <2>1, MaxPartNat
  <2> QED
    BY <2>1, <2>2, <2>3 DEF ReadsPart
<1>6. CASE i <= n
  <2>1. i \in 1..n /\ i \in 1..Len(parts)
    BY <1>3, <1>6
  <2>2. PICK part \in Seq(S) : part = parts[i]
    BY <2>1
  <2>3. PICK f \in 1..(len + 1) :
          /\ PartAt(text, part, i, f)
          /\ IF i = n THEN f + Len(part) = len + 1
             ELSE f + Len(part) <= len /\ text[f + Len(part)] = "."
    BY <1>1, <1>3, <2>1, <2>2 DEF IsSplit
  <2>4. PICK q \in 0..Len(part) :
          /\ LeadingDigits(part) \in Seq(Ten) /\ Len(LeadingDigits(part)) = q
          /\ \A k \in 1..q : LeadingDigits(part)[k] = part[k] /\ part[k] \in Ten
          /\ q = Len(part) \/ part[q + 1] \notin Ten
    BY LeadingSpec
  <2>5. PICK d \in Seq(Ten), l \in Nat : d = LeadingDigits(part) /\ l = Len(part)
    BY <2>2, <2>4
  <2>6. Len(d) = q /\ q \in Nat /\ q \in 0..l /\ f + l <= len + 1
    BY <1>3, <2>3, <2>4, <2>5
  <2>7. \A k \in 1..q : d[k] = text[f + k - 1] /\ text[f + k - 1] \in Ten
    <3> SUFFICES ASSUME NEW k \in 1..q
                 PROVE  d[k] = text[f + k - 1] /\ text[f + k - 1] \in Ten
      OBVIOUS
    <3>1. k \in 1..Len(part)
      BY <2>5, <2>6
    <3> QED
      BY <2>3, <2>4, <2>5, <3>1 DEF PartAt
  <2>8. PICK r : r = <<f, f + q - 1>>
    OBVIOUS
  <2>9. r \in Numerals(text, i)
    <3>1. r[1] = f /\ r[2] = f + q - 1 /\ r \in (1..(len + 1)) \X (0..len)
      <4>1. f + q - 1 \in 0..len
        BY <2>6
      <4> QED
        BY <2>8, <4>1
    <3>2. f <= (f + q - 1) + 1
      BY <2>6
    <3>3. f = 1 \/ text[f - 1] = "."
      BY <2>3 DEF PartAt
    <3>4. Cardinality({k \in 1..(f - 1) : text[k] = "."}) = i - 1
      BY <2>3 DEF PartAt, DotsBefore
    <3>5. \A k \in f..(f + q - 1) : text[k] \in Ten
      <4> SUFFICES ASSUME NEW k \in f..(f + q - 1)
                   PROVE  text[k] \in Ten
        OBVIOUS
      <4>1. PICK j \in 1..q : k = f + j - 1
        <5>1. k - f + 1 \in 1..q /\ k = f + (k - f + 1) - 1
          BY <2>6
        <5> QED
          BY <5>1
      <4> QED
        BY <2>7, <4>1
    <3>6. f + q - 1 = len \/ text[(f + q - 1) + 1] \notin Ten
      <4>1. CASE q = l
        <5>1. CASE i = n
          <6>1. f + l = len + 1
            BY <2>3, <2>5, <5>1
          <6> QED
            BY <4>1, <6>1
        <5>2. CASE i # n
          <6>1. text[f + l] = "."
            BY <2>3, <2>5, <5>2
          <6>2. (f + q - 1) + 1 = f + l
            BY <4>1
          <6> QED
            BY <6>1, <6>2, TenDigits
        <5> QED
          BY <5>1, <5>2
      <4>2. CASE q # l
        <5>1. part[q + 1] \notin Ten /\ q + 1 \in 1..Len(part)
          BY <2>4, <2>5, <2>6, <4>2
        <5>2. part[q + 1] = text[f + (q + 1) - 1]
          BY <2>3, <5>1 DEF PartAt
        <5>3. f + (q + 1) - 1 = (f + q - 1) + 1
          BY <2>6
        <5> QED
          BY <5>1, <5>2, <5>3
      <4> QED
        BY <4>1, <4>2
    <3> QED
      BY <1>3, <3>1, <3>2, <3>3, <3>4, <3>5, <3>6 DEF Numerals, Ten
  <2>10. p = ParseNumber(d) /\ ParseNumber(d) \in Nat
         /\ \A m \in 0..MaxPart : Writes(d, m) <=> ParseNumber(d) = m
    <3>1. p = ParseNumber(d)
      BY <1>2, <1>3, <1>6, <2>2, <2>5
    <3> QED
      BY <3>1, ParseReads
  <2>11. \A m : Denotes(text, r, m) <=> Writes(d, m)
    <3>1. f \in Nat \ {0} /\ r = <<f, f + Len(d) - 1>>
      BY <2>6, <2>8
    <3>2. \A k \in 1..Len(d) : d[k] = text[f + k - 1]
      BY <2>6, <2>7
    <3> QED
      BY <3>1, <3>2, Denoted
  <2>12. ASSUME p <= MaxPart PROVE ReadsPart(text, i, p)
    <3>1. p \in 0..MaxPart
      BY <2>10, <2>12, MaxPartNat
    <3>2. Denotes(text, r, p)
      BY <2>10, <2>11, <3>1
    <3> QED
      BY <2>9, <3>2 DEF ReadsPart
  <2>13. ASSUME p > MaxPart PROVE \A m \in 0..MaxPart : ~ Denotes(text, r, m)
    <3> SUFFICES ASSUME NEW m \in 0..MaxPart, Denotes(text, r, m)
                 PROVE  FALSE
      OBVIOUS
    <3>1. p = m
      BY <2>10, <2>11
    <3> QED
      BY <2>13, <3>1, MaxPartNat
  <2> QED
    BY <2>9, <2>10, <2>12, <2>13
<1> QED
  BY <1>3, <1>5, <1>6

(* A product version is accepted when its four numbers fit. *)
LEMMA ProductParts ==
  ASSUME NEW text
  PROVE  /\ DOMAIN parse_product_version(text) = 1..4
         /\ ProductVersionFault(text) = None =>
              \A i \in 1..4 : parse_product_version(text)[i] <= MaxPart
         /\ ProductVersionFault(text) # None =>
              \E i \in 1..4 : ~ (parse_product_version(text)[i] <= MaxPart)
<1>1. DOMAIN parse_product_version(text) = 1..4
  BY DEF parse_product_version
<1>2. None # InvalidConfig("product_version")
  BY DEF None, InvalidConfig, GenerateError
<1> QED
  BY <1>1, <1>2 DEF ProductVersionFault, Check

(* The four numbers stamped for the product are the ones that the leading digits of the
   components of product_version write in decimal, for a text of any length; a build fails over
   product_version only where some component writes no number that fits 16 bits (metadata.rs
   parse_product_version). *)
THEOREM VersionStamped == Spec => []ProductVersionRead
<1>1. StageInv => ProductVersionRead
  <2> SUFFICES ASSUME StageInv
               PROVE  ProductVersionRead
    OBVIOUS
  <2>1. PICK text \in Seq(STRING) : text = input.config.product
    <3>1. ConfigType(input.config)
      BY TemplateTables DEF StageInv
    <3>2. input.config.product = MetadataTexts(input.config)[3] /\ 3 \in DOMAIN MetadataTexts(input.config)
      BY DEF MetadataTexts
    <3>3. IsText(input.config.product)
      BY <3>1, <3>2 DEF ConfigType, ToSet
    <3> QED
      BY <3>3 DEF IsText
  <2>2. PICK v : v = parse_product_version(text)
    OBVIOUS
  <2>3. \A i \in 1..4 :
          /\ v[i] \in Nat
          /\ v[i] <= MaxPart => ReadsPart(text, i, v[i])
          /\ v[i] > MaxPart =>
               \E r \in Numerals(text, i) : \A n \in 0..MaxPart : ~ Denotes(text, r, n)
    BY <2>2, ComponentRead
  <2>4. ASSUME pc = "written"
        PROVE  /\ Reads(file.version.numeric.product, text)
               /\ \A i \in 1..4 :
                    (file.version.numeric.product.major \o file.version.numeric.product.minor)[i]
                      <= MaxPart
    <3>1. file = image /\ image.version.numeric.product = version_u32(v)
      BY <2>1, <2>2, <2>4, StampedTexts DEF StageInv
    <3>2. ProductVersionFault(text) = None
      <4>1. pc \in PastConfig
        BY <2>4 DEF PastConfig, PastContracts, PastResource, PastAssembly, PastAttributes, PastRefAct,
                    PastRefCommon, PastModuleRef, PastNative, PastTab
      <4>2. ConfigFault(input.config, input.host) = None
        BY <4>1 DEF StageInv, Checked
      <4> QED
        BY <2>1, <4>2, ConfigChecked, MetadataChecked
    <3>3. \A i \in 1..4 : v[i] <= MaxPart
      BY <2>2, <3>2, ProductParts
    <3>4. v \in [1..4 -> 0..MaxPart]
      <4>1. \A i \in 1..4 : v[i] \in 0..MaxPart
        BY <2>3, <3>3, MaxPartNat
      <4>2. v = [i \in 1..4 |-> v[i]]
        BY <2>2 DEF parse_product_version
      <4> QED
        BY <4>1, <4>2
    <3>5. \A i \in 1..4 : (version_u32(v).major \o version_u32(v).minor)[i] = v[i]
      BY <3>4, VersionNumbers
    <3>6. Reads(version_u32(v), text)
      BY <2>3, <3>3, <3>5 DEF Reads
    <3> QED
      BY <3>1, <3>3, <3>5, <3>6
  <2>5. ASSUME error = InvalidConfig("product_version")
        PROVE  \E i \in 1..4 : \E r \in Numerals(text, i) : \A n \in 0..MaxPart : ~ Denotes(text, r, n)
    <3>1. ConfigFault(input.config, input.host) = InvalidConfig("product_version")
      BY <2>5 DEF StageInv, Checked
    <3>2. ProductVersionFault(text) # None
      BY <2>1, <3>1, ConfigChecked, MetadataChecked
    <3>3. PICK i \in 1..4 : ~ (v[i] <= MaxPart)
      BY <2>2, <3>2, ProductParts
    <3>4. v[i] > MaxPart
      BY <2>3, <3>3, MaxPartNat
    <3> QED
      BY <2>3, <3>4
  <2> QED
    BY <2>1, <2>4, <2>5 DEF ProductVersionRead
<1> QED
  BY <1>1, StagesChecked, PTL
================================================================================

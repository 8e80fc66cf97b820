----------------------------- MODULE ShimGenerator -----------------------------
(* generate.rs and metadata.rs: build_shim checks a configuration and two    *)
(* contract assemblies and patches names and versions into the template of   *)
(* the managed shim, one stage after the other; a stage that fails ends the   *)
(* generation with its GenerateError. The PE and .NET formats are data: an    *)
(* image is the record of the tables, heaps and version fields the stages     *)
(* read or write, and a text is a sequence of atoms with a width in UTF-16     *)
(* code units, single characters where the code looks at characters.          *)
EXTENDS Naturals, Sequences, FiniteSets, SequencesExt

CONSTANTS
  Inputs,     \* what build_shim may be given: config, act, common, template, host
  Units(_),   \* the UTF-16 code units of an atom
  Sha1(_)     \* the twenty bytes of a key's digest

VARIABLES
  pc,         \* the stage that runs next, "written" or "failed"
  input,      \* the member of Inputs this build has
  image,      \* the template as patched so far
  error,      \* the GenerateError of a failed build, or None
  file        \* the shim in the target directory, Absent, or Partial

vars == <<pc, input, image, error, file>>

MAX_STRING_LEN == 2048
MaxPart == 65535
Absent  == "absent"
Partial == "partial"

(* GenerateError: its kind, and what it is about. *)
GenerateError(kind, about) == <<kind, about>>
None == GenerateError("none", "")
InvalidConfig(about) == GenerateError("InvalidConfig", about)
WriteError(about)    == GenerateError("Write", about)

(* The error of the first check that fails. *)
FirstOf(results) ==
  LET failed == SelectInSeq(results, LAMBDA r : r # None) IN
  IF failed = 0 THEN None ELSE results[failed]

Check(holds, fault) == IF holds THEN None ELSE fault

Width(text) == FoldLeft(LAMBDA n, atom : n + Units(atom), 0, text)
Has(text, atoms) == \E i \in DOMAIN text : text[i] \in atoms

ACT_NAME             == <<"Advanced Combat Tracker">>
COMMON_NAME          == <<"FFXIV_ACT_Plugin.Common">>
NATIVE_PLACEHOLDER   == <<"__FFXIV_ACT_NATIVE__", ".dll">>
TAB_NAME_PLACEHOLDER == <<"__FFXIV_ACT_TAB_NAME__">>
MetadataPlaceholder  == <<"____">>

-------------------------------------------------------------------------------
(* Version numbers. *)

DigitOf == <<"0", "1", "2", "3", "4", "5", "6", "7", "8", "9">>
ValueOf == [c \in ToSet(DigitOf) |-> (CHOOSE i \in 1..10 : DigitOf[i] = c) - 1]

SplitAtDots(text) ==
  FoldLeft(LAMBDA parts, c : IF c = "." THEN Append(parts, <<>>)
                             ELSE [parts EXCEPT ![Len(parts)] = Append(@, c)],
           <<<<>>>>, text)

(* Variant: every digit of the component counts, those after a letter too. *)
LeadingDigitsAll(part) == SelectSeq(part, LAMBDA c : c \in DOMAIN ValueOf)

(* take_while(is_ascii_digit). *)
LeadingDigits(part) ==
  SubSeq(part, 1, Cardinality({i \in DOMAIN part : \A j \in 1..i : part[j] \in DOMAIN ValueOf}))

(* The digits as a number; what u16 cannot hold stays above MaxPart. *)
ParseNumber(digits) ==
  FoldLeft(LAMBDA n, c : IF n > MaxPart THEN n ELSE 10 * n + ValueOf[c], 0, digits)

(* The first four components; one that is missing or has no digits is 0. *)
parse_product_version(text) ==
  LET parts == SplitAtDots(text) IN
  [i \in 1..4 |-> IF i > Len(parts) THEN 0 ELSE ParseNumber(LeadingDigits(parts[i]))]

ProductVersionFault(text) ==
  Check(\A i \in 1..4 : parse_product_version(text)[i] <= MaxPart,
        InvalidConfig("product_version"))

Decimal[n \in Nat] ==
  IF n < 10 THEN <<DigitOf[n + 1]>> ELSE Append(Decimal[n \div 10], DigitOf[(n % 10) + 1])

format_version(v) ==
  Decimal[v[1]] \o <<".">> \o Decimal[v[2]] \o <<".">> \o Decimal[v[3]] \o <<".">> \o Decimal[v[4]]

(* Two u32, each as its high and its low 16 bits. *)
version_u32(v) == [major |-> <<v[1], v[2]>>, minor |-> <<v[3], v[4]>>]

-------------------------------------------------------------------------------
(* The configuration. *)

DllName(name) == name \o <<".dll">>

(* Variant: only the strings of PluginMetadata are checked, not the names. *)
MetadataTextsUnnamed(config) ==
  <<config.product, config.description, config.productName, config.company,
    config.copyright, config.comments>>

(* The strings that metadata::validate looks at, in its order. *)
MetadataTexts(config) ==
  <<config.assembly, DllName(config.assembly), config.product, config.description,
    config.productName, config.company, config.copyright, config.comments>>

MetadataFault(config) ==
  FirstOf([i \in DOMAIN MetadataTexts(config) |->
             Check(/\ ~Has(MetadataTexts(config)[i], {"NUL"})
                   /\ Width(MetadataTexts(config)[i]) <= MAX_STRING_LEN,
                   InvalidConfig("metadata"))]
          \o <<ProductVersionFault(config.product)>>)

(* Path::file_name takes a backslash for a separator on Windows hosts only. *)
Separators(host) == IF host = "windows" THEN {"/", "\\"} ELSE {"/"}

(* A native name is its own file name and ends in .dll, in any case. *)
IsDllFileName(name, host) ==
  /\ name # <<>> /\ ~Has(name, Separators(host))
  /\ Last(name) \in {".dll", ".DLL"}

(* validate_config *)
ConfigFault(config, host) ==
  FirstOf(<<Check(config.assembly # <<>> /\ ~Has(config.assembly, {"/", "\\", "NUL"}),
                  InvalidConfig("assembly_name")),
            Check(config.tab # <<>>, InvalidConfig("tab_name")),
            Check(IsDllFileName(config.native, host), InvalidConfig("native_dll_name")),
            MetadataFault(config)>>)

-------------------------------------------------------------------------------
(* The contracts: an assembly is whether it parses, the identity in its      *)
(* manifest (or NoManifest), the names of its types, the delegate type of     *)
(* each event of IDataSubscription (or Dangling), and its methods.            *)

NoManifest == [name |-> <<>>, version |-> <<>>, culture |-> <<>>, strong |-> {}]
Dangling   == "dangling"

COMMON_EVENTS ==
  <<"NetworkReceived", "NetworkSent", "CombatantAdded", "CombatantRemoved",
    "PrimaryPlayerChanged", "ZoneChanged", "PlayerStatsChanged", "PartyListChanged",
    "LogLine", "ParsedLogLine", "ProcessChanged">>

REPOSITORY_METHODS ==
  <<"GetSelectedLanguageID", "GetCurrentFFXIVProcess", "GetResourceDictionary",
    "GetCurrentTerritoryID", "GetCurrentPlayerID", "GetCombatantList", "GetPlayer",
    "GetServerTimestamp", "GetGameVersion", "IsChatLogAvailable", "GetAntiVirusNames",
    "GetGameRegion">>

ModelTypes == <<"Combatant", "NetworkBuff", "Player", "Language", "ResourceType">>

Parse(assembly, about) == Check(assembly.parses, GenerateError("InvalidAssembly", about))

RequireType(assembly, name) ==
  Check(name \in assembly.types, GenerateError("MissingType", name))

MethodsOf(assembly, type, name) ==
  {m \in assembly.methods : m.type = type /\ m.name = name}

(* Variant: any method of the name will do. *)
RequireMethodNamed(assembly, type, name, arity, returns_void) ==
  Check(MethodsOf(assembly, type, name) # {}, GenerateError("MissingMember", name))

RequireMethod(assembly, type, name, arity, returns_void) ==
  FirstOf(<<Check(MethodsOf(assembly, type, name) # {}, GenerateError("MissingMember", name)),
            Check(\E m \in MethodsOf(assembly, type, name) :
                    m.arity = arity /\ (returns_void => m.void),
                  GenerateError("IncompatibleSignature", name))>>)

EventArity(event) ==
  CASE event = "PrimaryPlayerChanged" -> 0
    [] event \in {"CombatantAdded", "CombatantRemoved", "PlayerStatsChanged",
                  "ProcessChanged"} -> 1
    [] event \in {"ZoneChanged", "PartyListChanged"} -> 2
    [] OTHER -> 3

RequireEvent(common, event) ==
  IF event \notin DOMAIN common.events THEN GenerateError("MissingMember", event)
  ELSE IF common.events[event] = Dangling THEN GenerateError("IncompatibleSignature", event)
  ELSE RequireMethod(common, common.events[event], "Invoke", EventArity(event), TRUE)

MethodArity(name) == IF name = "GetResourceDictionary" THEN 1 ELSE 0

(* validate_contracts *)
ContractFault(act, common) ==
  FirstOf(<<RequireType(act, "IActPluginV1"),
            RequireMethod(act, "IActPluginV1", "InitPlugin", 2, TRUE),
            RequireMethod(act, "IActPluginV1", "DeInitPlugin", 0, TRUE),
            RequireType(common, "IDataSubscription")>>
       \o [i \in DOMAIN COMMON_EVENTS |-> RequireEvent(common, COMMON_EVENTS[i])]
       \o <<RequireType(common, "IDataRepository")>>
       \o [i \in DOMAIN REPOSITORY_METHODS |->
             RequireMethod(common, "IDataRepository", REPOSITORY_METHODS[i],
                           MethodArity(REPOSITORY_METHODS[i]), FALSE)]
       \o [i \in DOMAIN ModelTypes |-> RequireType(common, ModelTypes[i])])

(* CLR tokens are the last eight bytes of the SHA-1 digest, reversed. *)
public_key_token(identity) ==
  IF identity.kind = "Token" THEN identity.value
  ELSE Reverse(SubSeq(Sha1(identity.value), 13, 20))

-------------------------------------------------------------------------------
(* The template: whether it is a managed image; its version resource, which   *)
(* has no strings when the resource, its version info or its string table is   *)
(* missing; the slot the resource lies in; and the rows of its tables.         *)

NoVersionNumber == <<0, 0, 0, 0>>

(* Shim.template.dll, as Shim.cs compiles. *)
CheckedIn ==
  [managed |-> TRUE,
   version |->
     [numeric |-> [file |-> version_u32(NoVersionNumber), product |-> version_u32(NoVersionNumber)],
      strings |->
        [Comments |-> MetadataPlaceholder, CompanyName |-> MetadataPlaceholder,
         FileDescription |-> MetadataPlaceholder, LegalCopyright |-> MetadataPlaceholder,
         LegalTrademarks |-> MetadataPlaceholder, ProductName |-> MetadataPlaceholder,
         ProductVersion |-> MetadataPlaceholder,
         FileVersion |-> format_version(NoVersionNumber),
         AssemblyVersion |-> format_version(NoVersionNumber),
         InternalName |-> <<"Shim.template", ".dll">>,
         OriginalFilename |-> <<"Shim.template", ".dll">>]],
   slot |-> [found |-> TRUE, offset |-> 44632, capacity |-> 58080, size |-> 103424],
   assembly |-> <<[name |-> <<"Shim.template">>, version |-> NoVersionNumber]>>,
   module |-> <<<<"Shim.template", ".dll">>>>,
   attributes |->
     [AssemblyTitle |-> MetadataPlaceholder, AssemblyDescription |-> MetadataPlaceholder,
      AssemblyCompany |-> MetadataPlaceholder, AssemblyProduct |-> MetadataPlaceholder,
      AssemblyCopyright |-> MetadataPlaceholder, AssemblyTrademark |-> MetadataPlaceholder,
      AssemblyInformationalVersion |-> MetadataPlaceholder,
      AssemblyFileVersion |-> format_version(NoVersionNumber)],
   refs |-> [i \in 1..3 |-> [name |-> <<<<"mscorlib">>, ACT_NAME, COMMON_NAME>>[i],
                             version |-> NoVersionNumber, token |-> <<>>, culture |-> <<>>]],
   moduleRefs |-> <<<<"kernel32", ".dll">>, NATIVE_PLACEHOLDER>>,
   userStrings |-> <<TAB_NAME_PLACEHOLDER, NATIVE_PLACEHOLDER, <<"native DLL load failed">>>>]

VersionStrings(config) ==
  [Comments |-> config.comments, CompanyName |-> config.company,
   FileDescription |-> config.description, FileVersion |-> format_version(config.file),
   InternalName |-> config.assembly, LegalCopyright |-> config.copyright,
   OriginalFilename |-> DllName(config.assembly), ProductName |-> config.productName,
   ProductVersion |-> config.product]

(* The new texts, and the old ones where there is none. *)
Over(new, old) ==
  [x \in DOMAIN new \cup DOMAIN old |-> IF x \in DOMAIN new THEN new[x] ELSE old[x]]

(* The template's strings with those configured over them, less LegalTrademarks. *)
ResourceStrings(strings, config) ==
  Restrict(Over(VersionStrings(config), strings),
           (DOMAIN VersionStrings(config) \cup DOMAIN strings) \ {"LegalTrademarks"})

PatchedVersion(version, config) ==
  [numeric |-> [file |-> version_u32(config.file),
                product |-> version_u32(parse_product_version(config.product))],
   strings |-> ResourceStrings(version.strings, config)]

KeyUnits ==
  [Comments |-> 8, CompanyName |-> 11, FileDescription |-> 15, FileVersion |-> 11,
   InternalName |-> 12, LegalCopyright |-> 14, LegalTrademarks |-> 15,
   OriginalFilename |-> 16, ProductName |-> 11, ProductVersion |-> 14, AssemblyVersion |-> 16]

Pad4(n) == 4 * ((n + 3) \div 4)

(* A String: six bytes, the key and the value with their NULs, 4-aligned. *)
EntryBytes(key, value) == Pad4(Pad4(6 + 2 * (KeyUnits[key] + 1)) + 2 * (Width(value) + 1))

(* The headers, the fixed part and the translation take 220 bytes. *)
ResourceBytes(strings) ==
  FoldFunction(+, 220, [key \in DOMAIN strings |-> EntryBytes(key, strings[key])])

ResourceFault(template, config) ==
  IF DOMAIN template.version.strings = {} THEN WriteError("version info")
  ELSE FirstOf(
    <<Check(template.slot.found, WriteError("no slot")),
      Check(ResourceBytes(ResourceStrings(template.version.strings, config))
              <= template.slot.capacity, InvalidConfig("capacity")),
      Check(template.slot.offset + template.slot.capacity <= template.slot.size,
            WriteError("bounds"))>>)

AttributeTexts(config) ==
  [AssemblyTitle |-> config.assembly, AssemblyDescription |-> config.description,
   AssemblyCompany |-> config.company, AssemblyProduct |-> config.productName,
   AssemblyCopyright |-> config.copyright, AssemblyTrademark |-> <<>>,
   AssemblyFileVersion |-> format_version(config.file),
   AssemblyInformationalVersion |-> config.product]

-------------------------------------------------------------------------------
(* What build_shim may be given: any configuration of Rust's types, and a      *)
(* template whose placeholders are where the stages write and nowhere else.    *)

IsText(text) == text \in Seq(STRING) /\ \A i \in DOMAIN text : Units(text[i]) \in Nat
IsTable(rows) == rows \in Seq(ToSet(rows))

ConfigType(config) ==
  /\ config.file \in [1..4 -> 0..MaxPart]
  /\ \A text \in ToSet(MetadataTexts(config)) : IsText(text)

Placeholders == {NATIVE_PLACEHOLDER, TAB_NAME_PLACEHOLDER, MetadataPlaceholder,
                 <<"Shim.template">>, <<"Shim.template", ".dll">>}

(* The texts of a template that no stage writes. *)
Unpatched(template, config) ==
  {template.version.strings[key] : key \in
     DOMAIN template.version.strings \ (DOMAIN VersionStrings(config) \cup {"LegalTrademarks"})}
  \cup {template.attributes[a] : a \in DOMAIN template.attributes \ DOMAIN AttributeTexts(config)}
  \cup {template.module[i] : i \in DOMAIN template.module \ {1}}
  \cup {template.moduleRefs[i] : i \in
           {r \in DOMAIN template.moduleRefs :
              template.moduleRefs[r] = NATIVE_PLACEHOLDER =>
                \E j \in 1..(r - 1) : template.moduleRefs[j] = NATIVE_PLACEHOLDER}}
  \cup (ToSet(template.userStrings) \ {NATIVE_PLACEHOLDER, TAB_NAME_PLACEHOLDER})

TemplateType(template, config) ==
  /\ DOMAIN template = {"managed", "version", "slot", "assembly", "module", "attributes",
                        "refs", "moduleRefs", "userStrings"}
  /\ IsTable(template.assembly) /\ IsTable(template.module) /\ IsTable(template.refs)
  /\ IsTable(template.moduleRefs) /\ IsTable(template.userStrings)
  /\ DOMAIN template.version.strings \subseteq DOMAIN KeyUnits
  /\ \A key \in DOMAIN template.version.strings \ DOMAIN VersionStrings(config) :
       key # "LegalTrademarks" => Width(template.version.strings[key]) \in 0..MAX_STRING_LEN
  /\ Unpatched(template, config) \cap Placeholders = {}

ASSUME UnitsAssumption == \A c \in DOMAIN ValueOf \cup {"."} : Units(c) = 1
ASSUME InputsAssumption ==
  \A b \in Inputs : ConfigType(b.config) /\ TemplateType(b.template, b.config)

-------------------------------------------------------------------------------
(* The stages. *)

(* The stage runs: on to the next with the image patched, or out with the fault. *)
Stage(this, next, fault, patched) ==
  /\ pc = this
  /\ IF fault = None
     THEN pc' = next /\ image' = patched /\ UNCHANGED error
     ELSE pc' = "failed" /\ error' = fault /\ UNCHANGED image
  /\ UNCHANGED <<input, file>>

Init ==
  /\ pc = "target"
  /\ input \in Inputs
  /\ image = input.template
  /\ error = None
  /\ file = Absent

(* build_shim: the target directory is three levels above OUT_DIR. *)
FindTarget ==
  Stage("target", "config", Check(input.outDir, GenerateError("OutDir", "")), image)

ValidateConfig == Stage("config", "act", ConfigFault(input.config, input.host), image)
ParseAct       == Stage("act", "common", Parse(input.act, "act"), image)
ParseCommon    == Stage("common", "contracts", Parse(input.common, "common"), image)

ValidateContracts ==
  Stage("contracts", "identities", ContractFault(input.act, input.common), image)

(* emit: both identities are read before anything is patched. *)
Identities ==
  Stage("identities", "resource",
        FirstOf(<<Check(input.act.identity # NoManifest,
                        GenerateError("MissingAssemblyManifest", "act")),
                  Check(input.common.identity # NoManifest,
                        GenerateError("MissingAssemblyManifest", "common"))>>), image)

ApplyVersionResource ==
  Stage("resource", "template", ResourceFault(image, input.config),
        [image EXCEPT !.version = PatchedVersion(@, input.config)])

ParseTemplate ==
  Stage("template", "assembly",
        Check(image.managed, GenerateError("InvalidAssembly", "template")), image)

ReplaceAssemblyName ==
  Stage("assembly", "attributes",
        FirstOf(<<Check(image.assembly # <<>>, GenerateError("MissingAssemblyManifest", "template")),
                  Check(image.module # <<>>, GenerateError("MissingMember", "<Module>"))>>),
        [image EXCEPT
           !.assembly[1] = [name |-> input.config.assembly, version |-> input.config.version],
           !.module[1] = DllName(input.config.assembly)])

ApplyAssemblyAttributes ==
  Stage("attributes", "refAct",
        Check(Cardinality(DOMAIN image.attributes \cap DOMAIN AttributeTexts(input.config))
                = Cardinality(DOMAIN AttributeTexts(input.config)), WriteError("attributes")),
        [image EXCEPT !.attributes = Over(AttributeTexts(input.config), @)])

RefersTo(row, name) == input.template.refs[row].name = name

(* The first row of the old name takes the identity of the assembly supplied. *)
ReplaceAssemblyReference(this, next, old, identity) ==
  Stage(this, next,
        Check(\E row \in DOMAIN image.refs : RefersTo(row, old), GenerateError("MissingType", "reference")),
        [image EXCEPT !.refs = [row \in DOMAIN @ |->
           IF RefersTo(row, old) /\ \A r \in 1..(row - 1) : ~RefersTo(r, old)
           THEN [name |-> identity.name, version |-> identity.version, culture |-> identity.culture,
                 token |-> IF identity.strong = {} THEN <<>>
                           ELSE public_key_token(CHOOSE k \in identity.strong : TRUE)]
           ELSE @[row]]])

ReferToAct ==
  ReplaceAssemblyReference("refAct", "refCommon", ACT_NAME, input.act.identity)

ReferToCommon ==
  ReplaceAssemblyReference("refCommon", "moduleRef", COMMON_NAME, input.common.identity)

ReplaceModuleReference ==
  Stage("moduleRef", "nativeString",
        Check(Contains(image.moduleRefs, NATIVE_PLACEHOLDER),
              GenerateError("MissingMember", "module reference")),
        [image EXCEPT !.moduleRefs =
           ReplaceAt(@, CHOOSE i \in DOMAIN @ : /\ @[i] = NATIVE_PLACEHOLDER
                                                /\ \A j \in 1..(i - 1) : @[j] # NATIVE_PLACEHOLDER,
                     input.config.native)])

ReplaceUserString(this, next, old, new) ==
  Stage(this, next,
        Check(Contains(input.template.userStrings, old),
              GenerateError("MissingMember", "user string")),
        [image EXCEPT !.userStrings = [i \in DOMAIN @ |->
           IF input.template.userStrings[i] = old THEN new ELSE @[i]]])

(* Variant: the path given to LoadLibrary is forgotten. *)
NameLibrarySkipped == Stage("nativeString", "tabString", None, image)

(* The path that InitPlugin gives to LoadLibrary. *)
NameLibrary ==
  ReplaceUserString("nativeString", "tabString", NATIVE_PLACEHOLDER, input.config.native)

NameTab == ReplaceUserString("tabString", "emit", TAB_NAME_PLACEHOLDER, input.config.tab)

Emit == Stage("emit", "write", None, image)

(* Adding a string or a blob, updating a row, or serialising may fail. *)
LibraryFails ==
  /\ pc \in {"assembly", "attributes", "refAct", "refCommon", "moduleRef",
             "nativeString", "tabString", "emit"}
  /\ pc' = "failed" /\ error' = WriteError("library")
  /\ UNCHANGED <<input, image, file>>

(* fs::write: the whole shim, or a failure that may leave a part of it. *)
WriteFile ==
  /\ pc = "write"
  /\ \/ pc' = "written" /\ file' = image /\ UNCHANGED error
     \/ pc' = "failed" /\ file' \in {Absent, Partial} /\ error' = GenerateError("Io", "")
  /\ UNCHANGED <<input, image>>

Next ==
  \/ FindTarget \/ ValidateConfig \/ ParseAct \/ ParseCommon \/ ValidateContracts
  \/ Identities \/ ApplyVersionResource \/ ParseTemplate \/ ReplaceAssemblyName
  \/ ApplyAssemblyAttributes \/ ReferToAct \/ ReferToCommon \/ ReplaceModuleReference
  \/ NameLibrary \/ NameTab \/ Emit \/ LibraryFails \/ WriteFile

Spec == Init /\ [][Next]_vars

-------------------------------------------------------------------------------
(* Properties. *)

(* Where component i of a text begins, and where the digits it begins with end: *)
(* nothing, or one pair.                                                        *)
Numerals(text, i) ==
  {r \in (1..(Len(text) + 1)) \X (0..Len(text)) :
     /\ r[1] <= r[2] + 1
     /\ r[1] = 1 \/ text[r[1] - 1] = "."
     /\ Cardinality({k \in 1..(r[1] - 1) : text[k] = "."}) = i - 1
     /\ \A k \in r[1]..r[2] : text[k] \in DOMAIN ValueOf
     /\ r[2] = Len(text) \/ text[r[2] + 1] \notin DOMAIN ValueOf}

(* The text has n in decimal there, perhaps behind zeros; no digits are a 0. *)
Denotes(text, r, n) ==
  \E z \in r[1]..(r[2] + 1) :
    /\ \A k \in r[1]..(z - 1) : text[k] = "0"
    /\ \/ SubSeq(text, z, r[2]) = Decimal[n]
       \/ n = 0 /\ z = r[2] + 1

ReadsPart(text, i, n) ==
  IF Numerals(text, i) = {} THEN n = 0 ELSE \E r \in Numerals(text, i) : Denotes(text, r, n)

Reads(number, text) ==
  \A i \in 1..4 : ReadsPart(text, i, (number.major \o number.minor)[i])

(* parse_product_version: an accepted product version has four parts of 16    *)
(* bits, and the number stamped into the shim reads as its text does; a        *)
(* version refused as out of range really has a part that 16 bits do not hold. *)
ProductVersionRead ==
  /\ pc = "written" =>
       /\ Reads(file.version.numeric.product, input.config.product)
       /\ \A i \in 1..4 :
            (file.version.numeric.product.major \o file.version.numeric.product.minor)[i] <= MaxPart
  /\ error = InvalidConfig("product_version") =>
       \E i \in 1..4 : \E r \in Numerals(input.config.product, i) :
         \A n \in 0..MaxPart : ~Denotes(input.config.product, r, n)

(* metadata.rs:157: what validate_config accepts always fits the space that   *)
(* the checked-in template reserves, so that no section is ever rewritten and  *)
(* no build of a valid configuration stops at the template's capacity.         *)
ValidatedMetadataFits ==
  error \in {InvalidConfig("capacity"), WriteError("bounds")} => input.template.slot # CheckedIn.slot

(* What Shim.cs calls: the handlers it attaches and the methods it uses. *)
Calls(type, name, arity) == [type |-> type, name |-> name, arity |-> arity]

HandlerArities ==
  [NetworkReceived |-> 3, NetworkSent |-> 3, CombatantAdded |-> 1, CombatantRemoved |-> 1,
   PrimaryPlayerChanged |-> 0, ZoneChanged |-> 2, PlayerStatsChanged |-> 1,
   PartyListChanged |-> 2, LogLine |-> 3, ParsedLogLine |-> 3, ProcessChanged |-> 1]

RepositoryCalls ==
  {Calls("IDataRepository", name, 0) :
     name \in {"GetCurrentPlayerID", "GetCurrentTerritoryID", "GetSelectedLanguageID",
               "GetGameVersion", "IsChatLogAvailable", "GetCombatantList", "GetPlayer",
               "GetCurrentFFXIVProcess", "GetServerTimestamp", "GetAntiVirusNames",
               "GetGameRegion"}}
  \cup {Calls("IDataRepository", "GetResourceDictionary", 1)}

Offers(assembly, call) ==
  \E m \in assembly.methods : Calls(m.type, m.name, m.arity) = call

(* validate_contracts: a shim is emitted only against an SDK in which every    *)
(* event that Subscribe attaches to has a delegate of its handler's arity and   *)
(* every repository method that a query calls exists with its arguments, so     *)
(* that ACT does not fail to bind them at run time.                             *)
ContractsCover ==
  pc \notin {"target", "config", "act", "common", "contracts", "failed"} =>
    /\ \A event \in DOMAIN HandlerArities :
         /\ event \in DOMAIN input.common.events
         /\ Offers(input.common, Calls(input.common.events[event], "Invoke", HandlerArities[event]))
    /\ \A call \in RepositoryCalls : Offers(input.common, call)

(* The texts a shim takes from the configuration. *)
Configured(config) ==
  Range(VersionStrings(config)) \cup Range(AttributeTexts(config)) \cup {config.native, config.tab}

Names(row, identity) == row.name = identity.name /\ row.version = identity.version

Texts(shim) ==
  ToSet(shim.moduleRefs) \cup ToSet(shim.userStrings) \cup ToSet(shim.module)
  \cup Range(shim.version.strings) \cup Range(shim.attributes) \cup {shim.assembly[1].name}

(* "Keeping these values together ensures the PE resource, .NET assembly, and   *)
(* native import all describe the same plugin" (generate.rs:56): a shim that     *)
(* was written names itself in one way in its manifest, its module row, its      *)
(* resource and its title, imports the library that InitPlugin loads, carries    *)
(* one file version as number, resource string and attribute, refers to the      *)
(* assemblies it was checked against and to others only as the template did, and  *)
(* keeps no placeholder of its own. The one field left out is the resource's     *)
(* Assembly Version string, which no stage patches.                             *)
OneIdentity ==
  pc = "written" =>
    /\ Texts(file) \cap Placeholders \subseteq Configured(input.config)
    /\ file.assembly[1].name = file.version.strings["InternalName"]
    /\ file.assembly[1].name = file.attributes["AssemblyTitle"]
    /\ file.module[1] = file.version.strings["OriginalFilename"]
    /\ \E i \in DOMAIN file.moduleRefs :
         /\ input.template.moduleRefs[i] = NATIVE_PLACEHOLDER
         /\ \A j \in DOMAIN file.userStrings :
              input.template.userStrings[j] = NATIVE_PLACEHOLDER =>
                file.userStrings[j] = file.moduleRefs[i]
    /\ Reads(file.version.numeric.file, file.version.strings["FileVersion"])
    /\ file.version.strings["FileVersion"] = file.attributes["AssemblyFileVersion"]
    /\ file.version.strings["ProductVersion"] = file.attributes["AssemblyInformationalVersion"]
    /\ \A a \in {input.act, input.common} :
         \E i \in DOMAIN file.refs : Names(file.refs[i], a.identity)
    /\ \A i \in DOMAIN file.refs :
         \/ file.refs[i] = input.template.refs[i]
         \/ \E a \in {input.act, input.common} : Names(file.refs[i], a.identity)
===============================================================================

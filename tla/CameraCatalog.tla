--------------------------- MODULE CameraCatalog ----------------------------
(***************************************************************************)
(* The global catalogue of cameras, which administrators of the platform   *)
(* write by hand and from spreadsheets, and what the analysis of a label - *)
(* the text of a QR code - makes of it.                                    *)
(*                                                                         *)
(* Two writers name one thing in two ways, and a label is read with names  *)
(* in yet another writing, of which it lists the first few variants only.  *)
(* Each operation is one transaction.  Left out: families, which only      *)
(* group models, regions, and what is known of a variant: an import writes *)
(* that with the variant and never over it.                                *)
(***************************************************************************)
EXTENDS Naturals, FiniteSets

CONSTANTS Names,       \* names in their normal form
          Writings,    \* bound: the ways to write a name: case, spaces, width
          Hardware,    \* bound: versions of hardware, and what else tells variants apart
          MaxMatches,  \* how many variants the analysis of a label lists: 10
          MaxModels    \* bound: how many models there are

VARIABLES manufacturers,  \* the rows of CameraCatalogManufacturer, by normalizedName,
          brands,         \* of CameraCatalogBrand,
          models,         \* of CameraCatalogModel with their aliases and CameraCatalogAlias,
          variants        \* and of CameraCatalogVariant, by identityKey

catalogue == <<manufacturers, brands, models, variants>>

NoHardware == "NONE"
Written == [normal : Names, writing : Writings]
normalize(name) == name.normal
\* What is not given, like a name that is too long.
Absent == [normal |-> "NONE", writing |-> "NONE"]

Brand == [manufacturer : Names, name : Names]
\* (brandId, normalizedName) is unique, and so is identityKey.
Same(m, brand, name) == m.brand = brand /\ m.name = name
Exists(brand, name) == \E m \in models : Same(m, brand, name)
\* Nothing writes the name of a variant.
Variant(brand, name, hardware, sku, key) ==
  [brand |-> brand, model |-> name, hardware |-> hardware, sku |-> sku, key |-> key]

Init == manufacturers = {} /\ brands = {} /\ models = {} /\ variants = {}
-----------------------------------------------------------------------------
(* CameraCatalogService.  A row that violates a unique key is refused. *)

createManufacturer(name) ==
  /\ normalize(name) \notin manufacturers
  /\ manufacturers' = manufacturers \cup {normalize(name)}
  /\ UNCHANGED <<brands, models, variants>>

createBrand(manufacturer, name) ==
  /\ manufacturer \in manufacturers
  /\ LET brand == [manufacturer |-> manufacturer, name |-> normalize(name)] IN
     brand \notin brands /\ brands' = brands \cup {brand}
  /\ UNCHANGED <<manufacturers, models, variants>>

\* With one variant, which is never joined by another.  The aliases are kept as they were
\* written, and there are aliasRecords to be searched.
AddModel(brand, name, aliases, hardware, sku, aliasRecords) ==
  /\ brand \in brands /\ ~Exists(brand, normalize(name))
  /\ Cardinality(models) < MaxModels
  /\ models' = models \cup {[brand |-> brand, name |-> normalize(name), aliases |-> aliases,
                             aliasRecords |-> aliasRecords]}
  /\ variants' = variants \cup
       {Variant(brand, normalize(name), hardware, sku,
          <<IF hardware = NoHardware THEN "default" ELSE hardware, "global">>)}
  /\ UNCHANGED <<manufacturers, brands>>

\* Variant: they have the names as they were written.
createModelRaw(brand, name, aliases, hardware, sku) ==
  AddModel(brand, name, aliases, hardware, sku, aliases)
\* Two writings of one alias are not recognized as such before their unique key is.
createModel(brand, name, aliases, hardware, sku) ==
  /\ \A a, b \in aliases : normalize(a) = normalize(b) => a = b
  /\ AddModel(brand, name, aliases, hardware, sku, {normalize(a) : a \in aliases})
-----------------------------------------------------------------------------
(* importCatalogRows: a spreadsheet, one row at a time.  The rows of one run *)
(* are one transaction, which is no different from a run for each.           *)

ImportAs(brand, name) ==
  /\ Exists(brand, name) \/ Cardinality(models) < MaxModels
  /\ manufacturers' = manufacturers \cup {brand.manufacturer}
  /\ brands' = brands \cup {brand}
  /\ models' = IF Exists(brand, name) THEN models
               ELSE models \cup {[brand |-> brand, name |-> name, aliases |-> {},
                                  aliasRecords |-> {}]}
  /\ variants' = variants \cup {Variant(brand, name, NoHardware, NoHardware, <<"default">>)}

\* What is there is left as it is.
Import(manufacturer, brand, model) ==
  ImportAs([manufacturer |-> normalize(manufacturer), name |-> normalize(brand)], normalize(model))
-----------------------------------------------------------------------------
(* QrAnalysisService.  Nothing is written.  Left out: the identifiers it lists, and what *)
(* it says of each match.                                                                *)

\* A label gives the names of a manufacturer, or brand, and of a model, and a variant,
\* which is compared as it is; each may be missing.
ModelMatches(m, label) ==
  label.model # Absent =>
    m.name = normalize(label.model) \/ normalize(label.model) \in m.aliasRecords
BrandMatches(brand, label) ==
  label.manufacturer # Absent =>
    normalize(label.manufacturer) \in {brand.name, brand.manufacturer}

\* The variants that answer to a label.
Answering(label) ==
  IF label.manufacturer = Absent /\ label.model = Absent THEN {}
  ELSE {v \in variants :
          /\ label.variant # NoHardware => label.variant \in {v.hardware, v.sku}
          /\ BrandMatches(v.brand, label)
          /\ \E m \in models : Same(m, v.brand, v.model) /\ ModelMatches(m, label)}

\* catalogMatches: as many of them as it takes, in no order.
catalogMatches(label) ==
  LET answering == Answering(label) IN
  IF Cardinality(answering) <= MaxMatches THEN {answering}
  ELSE {rows \in SUBSET answering : Cardinality(rows) = MaxMatches}

Confidence(label, matches) ==
  LET named == label.manufacturer # Absent /\ label.model # Absent IN
  CASE Cardinality(matches) = 1 /\ named ->
         IF label.variant # NoHardware THEN "EXACT" ELSE "HIGH"
    [] Cardinality(matches) > 1 -> "MEDIUM"
    [] OTHER -> IF label.manufacturer # Absent \/ label.model # Absent THEN "LOW" ELSE "UNKNOWN"

NextAction(label, matches) ==
  IF matches # {} THEN "CONFIRM_IDENTIFICATION"
  ELSE IF label.manufacturer # Absent THEN "SELECT_CATALOG_MODEL" ELSE "CONTINUE_MANUALLY"

\* JSON or labelled text.  An address of the program itself is recognized as such, and
\* what else has no names in it - a network, another address, JSON that is none - is not.
\* The results that an analysis may have.
analyze(label) ==
  {[recognized |-> matches # {}, matches |-> matches, confidence |-> Confidence(label, matches),
    nextAction |-> NextAction(label, matches)] : matches \in catalogMatches(label)}
-----------------------------------------------------------------------------
CatalogueStep ==
  \/ \E name \in Written :
       \/ createManufacturer(name)
       \/ \E m \in manufacturers : createBrand(m, name)
       \/ \E b \in brands, aliases \in SUBSET Written :
            \E hardware, sku \in Hardware \cup {NoHardware} :
              createModel(b, name, aliases, hardware, sku)
  \/ \E manufacturer, brand, model \in Written : Import(manufacturer, brand, model)

Spec == Init /\ [][CatalogueStep]_catalogue
-----------------------------------------------------------------------------
(* Properties *)

\* Every variant of a model is listed for a label with its brand's or manufacturer's name
\* and its own or an alias, however they are written, unless the list is full; the model is
\* found with certainty if no other answers to them, and it has just one variant or one of
\* the hardware or SKU that the label gives.  And a label that gives no variant is certain
\* of nothing that has several answers, in the list or not.  (An import gives a model that
\* was created by hand a variant more, which nothing may tell from the first.)
Writing(names) == {name \in Written : normalize(name) \in names}
LabelsOf(m) ==
  {[manufacturer |-> manufacturer, model |-> model, variant |-> NoHardware] :
     manufacturer \in Writing({m.brand.name, m.brand.manufacturer}),
     model \in Writing({normalize(a) : a \in m.aliases} \cup {m.name})}
Other(m, label) == \E n \in models \ {m} : BrandMatches(n.brand, label) /\ ModelMatches(n, label)
Versions(m) == {v \in variants : Same(m, v.brand, v.model)}
LabelIdentifies ==
  \A m \in models : \A label \in LabelsOf(m) :
    /\ \A result \in analyze(label) :
         /\ Versions(m) \subseteq result.matches \/ Cardinality(result.matches) = MaxMatches
         /\ result.confidence = "HIGH" => Cardinality(Answering(label)) = 1
    /\ ~Other(m, label) =>
         /\ Cardinality(Versions(m)) = 1 => \A result \in analyze(label) : result.confidence = "HIGH"
         /\ \A v \in Versions(m) : \A variant \in {v.hardware, v.sku} \ {NoHardware} :
              \A result \in analyze([label EXCEPT !.variant = variant]) :
                result.confidence = "EXACT"
=============================================================================

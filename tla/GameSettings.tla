---------------------------- MODULE GameSettings ----------------------------
(***************************************************************************)
(* The settings of a game file (lib/setupGameSetting): parse fills five    *)
(* maps, one section of the file after the other.  An exception of         *)
(* parseInt or parseBool leaves the sections before it filled.             *)
(*                                                                         *)
(* A Variable is a record of its type, a text and items; the items of a    *)
(* list have the empty key, those of a map come in the order their keys    *)
(* were first set.  An expression of the file has a "form" and the same;   *)
(* the expressions of a file are trees, which Height says.                 *)
(***************************************************************************)
EXTENDS Integers, Sequences, SequencesExt

CONSTANTS
    Files,         \* syntax trees: the five sections, and rules
    Expressions,   \* the expressions in them
    Height,        \* expression -> how deep it is nested
    IntTexts       \* the numbers of a file that fit in an int

VARIABLES file,       \* the syntax tree
          settings,   \* GameSettings: section -> its map
          parsed      \* how parse went: "no", "ok", "throws"

settingsVars == <<file, settings, parsed>>

Sections == <<"configuration", "constants", "variables", "per_player", "per_audience">>

\* The grammar of a game file.
Entry == [key : STRING, value : Expressions]
Setting == [name : STRING, kind : STRING, prompt : STRING,
            range : STRING \X STRING, default : Seq(STRING)]

ASSUME ExpressionsAssumption ==
    /\ Height \in [Expressions -> Nat]
    /\ \A e \in Expressions :
          /\ e.items \in Seq(Entry)
          /\ e.items # <<>> => e.form \in {"value_map", "list_literal"}
          /\ \A i \in DOMAIN e.items : Height[e.items[i].value] < Height[e]

ASSUME FilesAssumption ==
    \A f \in Files :
        /\ f.configuration.range \in STRING \X STRING
        /\ f.configuration.setup \in Seq(Setting)
        /\ \A section \in Range(Tail(Sections)) : f[section] \in Seq(Entry)

Scalar(type, text) == [type |-> type, text |-> text, items |-> <<>>]
ListOf(vars) == [type |-> "list", text |-> "",
                 items |-> [i \in DOMAIN vars |-> [key |-> "", value |-> vars[i]]]]

\* What makeVar or parseInt threw in place of a Variable.
Thrown == Scalar("exception", "")

\* VariableUtils::setValue on a varMapType: the last value of a key stays.
SetValue(map, key, value) ==
    IF \E i \in DOMAIN map : map[i].key = key
    THEN [i \in DOMAIN map |-> IF map[i].key = key THEN [map[i] EXCEPT !.value = value] ELSE map[i]]
    ELSE Append(map, [key |-> key, value |-> value])

Throws(value) == value.type = "exception" \/ \E i \in DOMAIN value.items : value.items[i].value = Thrown

\* Keys set in order.
MapOf(entries) ==
    LET map[n \in 0..Len(entries)] ==
            IF n = 0 THEN <<>> ELSE SetValue(map[n - 1], entries[n].key, entries[n].value)
    IN  IF \E i \in DOMAIN entries : Throws(entries[i].value) THEN Thrown
        ELSE [type |-> "map", text |-> "", items |-> map[Len(entries)]]

ParseInt(text) == IF text \in IntTexts THEN Scalar("int", text) ELSE Thrown

ParseBool(text) == IF text \in {"true", "false"} THEN Scalar("bool", text) ELSE Thrown

Checked(value) == IF Throws(value) THEN Thrown ELSE value

\* Entries with what a parser makes of their values.
Parsed(entries, parser) ==
    [i \in DOMAIN entries |-> [key |-> entries[i].key, value |-> parser[entries[i].value]]]

\* Anything else than a map, a list, a string or a number is 0.
RecursiveExpressionParser[e \in Expressions] ==
    CASE e.form = "value_map"     -> MapOf(Parsed(e.items, RecursiveExpressionParser))
      [] e.form = "list_literal"  ->
            Checked(ListOf([i \in DOMAIN e.items |-> RecursiveExpressionParser[e.items[i].value]]))
      [] e.form = "quoted_string" -> Scalar("str", e.text)
      [] e.form = "number"        -> ParseInt(e.text)
      [] OTHER                    -> Scalar("int", "0")

ValueMapParser(entries) == MapOf(Parsed(entries, RecursiveExpressionParser))

PlayerRange(bounds) == Checked(ListOf(<<ParseInt(bounds[1]), ParseInt(bounds[2])>>))

\* One setting; range and default are read of the kind "integer" only.
SetupRule(setup) ==
    MapOf(<<[key |-> "kind", value |-> Scalar("str", setup.kind)],
            [key |-> "prompt", value |-> Scalar("str", setup.prompt)]>>
          \o IF setup.kind # "integer" THEN <<>>
             ELSE <<[key |-> "range", value |-> PlayerRange(setup.range)]>>
                  \o [i \in DOMAIN setup.default |->
                        [key |-> "default_int", value |-> ParseInt(setup.default[i])]])

\* The settings share a map with the name, range and audience of the game.
ConfigurationEntries(config) ==
    <<[key |-> "name", value |-> Scalar("str", config.name)],
      [key |-> "player_range", value |-> PlayerRange(config.range)],
      [key |-> "audience", value |-> ParseBool(config.audience)]>>
    \o [i \in DOMAIN config.setup |->
           [key |-> config.setup[i].name, value |-> SetupRule(config.setup[i])]]

\* What a section of the file sets.
SectionEntries(section) ==
    IF section = "configuration" THEN ConfigurationEntries(file.configuration)
    ELSE Parsed(file[section], RecursiveExpressionParser)

ParseSection(section) == MapOf(SectionEntries(section))

Empty == [type |-> "map", text |-> "", items |-> <<>>]

SettingsInit ==
    /\ file \in Files
    /\ settings = [s \in Range(Sections) |-> Empty]
    /\ parsed = "no"

\* Slip used by a mutant: a section that throws does not end the parse.
FilledAnyway ==
    [k \in DOMAIN Sections |-> LET map == ParseSection(Sections[k])
                               IN  IF map = Thrown THEN Empty ELSE map]

\* The maps after parse: those from the section that throws on are not set.
Filled ==
    LET maps == [k \in DOMAIN Sections |-> ParseSection(Sections[k])]
    IN  [k \in DOMAIN Sections |-> IF \E j \in 1..k : maps[j] = Thrown THEN Empty ELSE maps[k]]

\* GameSettings::parse
ParseSettings ==
    /\ parsed = "no"
    /\ settings' = [s \in Range(Sections) |-> Filled[CHOOSE k \in DOMAIN Sections : Sections[k] = s]]
    /\ parsed' = IF \E s \in Range(Sections) : ParseSection(s) = Thrown THEN "throws" ELSE "ok"
    /\ UNCHANGED file

SettingsSpec == SettingsInit /\ [][ParseSettings]_settingsVars

-----------------------------------------------------------------------------
(* Properties *)

\* The value that a map has for a key.
At(map, key) == map.items[CHOOSE i \in DOMAIN map.items : map.items[i].key = key].value

\* An expression without a number that does not fit.
Readable[e \in Expressions] ==
    /\ e.form = "number" => e.text \in IntTexts
    /\ \A i \in DOMAIN e.items : Readable[e.items[i].value]

ReadableSection(section) ==
    IF section # "configuration"
    THEN \A i \in DOMAIN file[section] : Readable[file[section][i].value]
    ELSE LET config == file.configuration
         IN  /\ config.audience \in {"true", "false"}
             /\ Range(config.range) \subseteq IntTexts
             /\ \A i \in DOMAIN config.setup : config.setup[i].kind = "integer" =>
                    Range(config.setup[i].range) \cup Range(config.setup[i].default) \subseteq IntTexts

\* A map has each key of its entries once, with the value of the last entry
\* that sets it.
HoldsLast(map, entries) ==
    /\ {map.items[i].key : i \in DOMAIN map.items} = {entries[i].key : i \in DOMAIN entries}
    /\ \A i, j \in DOMAIN map.items : map.items[i].key = map.items[j].key => i = j
    /\ \A i \in DOMAIN entries :
          (\A j \in DOMAIN entries : j > i => entries[j].key # entries[i].key)
              => At(map, entries[i].key) = entries[i].value

\* parse fills the sections up to the first one that cannot be read and
\* leaves the rest empty; in a section it fills, every key is there once,
\* with the value written last (GameSettings::parse and setValue).
SettingsAsWritten ==
    parsed # "no" =>
        \A k \in DOMAIN Sections :
            IF \A j \in 1..k : ReadableSection(Sections[j])
            THEN HoldsLast(settings[Sections[k]], SectionEntries(Sections[k]))
            ELSE settings[Sections[k]] = Empty /\ parsed = "throws"
=============================================================================

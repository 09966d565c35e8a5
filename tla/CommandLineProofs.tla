-------------------------- MODULE CommandLineProofs -------------------------
(***************************************************************************)
(* Proofs about CommandLine, for all options, sizes and array capacities.  *)
(***************************************************************************)
EXTENDS CommandLine, TLAPS

(* The table of commands. *)
LEMMA CommandTable ==
  ASSUME NEW s \in CommandOptions
  PROVE  /\ CommandOf[s] # "open-repo"
         /\ CommandOf[s] = "rewrite-ref" <=> s = "u"
         /\ CommandOf[s] = "remove-head-entry" <=> s = "d"
         /\ CommandOf[s] \in {"rewrite-ref", "rewrite-refs"} <=> s \in {"u", "U"}
         /\ SupportsBlobProtection(CommandOf[s]) <=> s \in {"H", "u", "U"}
         /\ UsesPath(CommandOf[s]) <=> s \in {"d", "C", "W", "H"}
         /\ AddsPathFilter(CommandOf[s]) <=> s \in {"C", "W", "H"}
  BY DEF CommandOptions, CommandOf, SupportsBlobProtection, UsesPath, AddsPathFilter

LEMMA OpenRepoIsPlain ==
  /\ ~SupportsBlobProtection("open-repo")
  /\ ~AddsPathFilter("open-repo")
  BY DEF SupportsBlobProtection, AddsPathFilter

LEMMA DivisionBounds ==
  ASSUME NEW n \in Nat, NEW m \in Nat \ {0}, NEW max \in Nat
  PROVE  n <= max \div m <=> n * m <= max
<1> DEFINE q == max \div m
<1>1. q \in Nat /\ m * q <= max /\ max < m * (q + 1)
  BY Z3
<1>2. n <= q => n * m <= m * q
  BY <1>1, Z3
<1>3. n >= q + 1 => n * m >= m * (q + 1)
  BY <1>1, Z3
<1> QED BY <1>1, <1>2, <1>3, Z3

LEMMA MultiplierIsPositive ==
  ASSUME NEW suffix PROVE Multiplier(suffix) \in Nat \ {0}
<1>1. Kilo \in Nat \ {0} BY SizesAssumption
<1>2. Kilo * Kilo \in Nat \ {0} BY <1>1, Z3
<1>3. Kilo * (Kilo * Kilo) \in Nat \ {0} BY <1>1, <1>2, Z3
<1>4. Kilo * (Kilo * (Kilo * Kilo)) \in Nat \ {0} BY <1>1, <1>3, Z3
<1> QED BY <1>1, <1>2, <1>3, <1>4 DEF Multiplier

(* parse_blob_size accepts exactly the sizes that 64 bits hold, and what   *)
(* it yields for them is the product, not wrapped.                         *)
LEMMA SizesAreExact ==
  ASSUME NEW text \in SizeTexts
  PROVE  /\ SizeFits(text) <=> IsExpressible(text)
         /\ SizeFits(text) => ParsedSize(text) = ExactSize(text) /\ ExactSize(text) \in 0..MaxSize
<1> DEFINE m == Multiplier(text.suffix)
<1>1. /\ m \in Nat \ {0} /\ MaxSize \in Nat /\ text.number \in Nat
      BY MultiplierIsPositive, SizesAssumption DEF SizeTexts
<1>2. text.number <= MaxSize \div m <=> text.number * m <= MaxSize
      BY <1>1, DivisionBounds
<1>3. text.number * m \in Nat /\ text.number * m >= text.number
      BY <1>1, Z3
<1>4. SizeFits(text) <=> IsExpressible(text)
      BY <1>1, <1>2, <1>3 DEF SizeFits, IsSize, IsExpressible, ExactSize
<1>5. ASSUME text.number * m <= MaxSize
      PROVE  (text.number * m) % (MaxSize + 1) = text.number * m
  <2> DEFINE x == text.number * m
  <2>1. x \in Nat /\ x < MaxSize + 1 BY <1>1, <1>3, <1>5
  <2> HIDE DEF x
  <2>2. x % (MaxSize + 1) = x BY <2>1, <1>1, Z3
  <2> QED BY <2>2 DEF x
<1> QED BY <1>1, <1>3, <1>4, <1>5 DEF SizeFits, IsExpressible, ParsedSize, ExactSize

-----------------------------------------------------------------------------
(* What the options parsed so far have left behind.                        *)

Seen(shorts) == {i \in Positions(shorts) : i < next}

NothingRefused ==
  /\ Seen({"h", "?"}) = {}
  /\ \A i \in Seen({"S"}) : IsExpressible(args[i].arg)
CommandIsParsed ==
  /\ \A i, j \in Seen(CommandOptions) : i = j
  /\ command = "open-repo" <=> Seen(CommandOptions) = {}
  /\ \A i \in Seen(CommandOptions) :
       /\ command = CommandOf[args[i].short]
       /\ args[i].short = "u" => ref_name = args[i].arg
       /\ args[i].short \in {"d", "C", "W", "H"} => path = args[i].arg
FlagsAreParsed ==
  /\ "filter" \in flags <=> Seen(FilterOptions) # {}
  /\ "no-blob-protection" \in flags <=> Seen({"N"}) # {}
  /\ protect <=> Seen({"N"}) = {}
RulesAreParsed ==
  outcome # "failed" =>
  {rules[i] : i \in DOMAIN rules} =
    {ExactRule(args[i]) : i \in Seen(FilterOptions)} \cup
      (IF pc = "command" \/ outcome = "ran"
       THEN {DeletePath(args[i].arg) : i \in Seen({"C", "W", "H"})} ELSE {})
Answered ==
  /\ pc = "parse" => outcome = "none"
  /\ pc \in {"open", "filter", "command"} => outcome = "none"
  /\ pc \in {"open", "filter", "command"} \/ outcome \in {"ran", "failed"} =>
       next = Len(args) + 1 /\ Legal
  /\ pc = "exit" <=> outcome # "none"

Prefix == NothingRefused /\ CommandIsParsed /\ FlagsAreParsed
Inv == TypeOK /\ Prefix /\ RulesAreParsed /\ Answered /\ EveryLegalCommandRuns

LEMMA OptionFacts ==
  ASSUME TypeOK
  PROVE  /\ Len(args) \in Nat /\ DOMAIN args = 1..Len(args)
         /\ \A i \in DOMAIN args : args[i] \in OptionRecords
         /\ Len(rules) \in Nat /\ DOMAIN rules = 1..Len(rules)
  BY DEF TypeOK

LEMMA ArgumentFacts ==
  ASSUME NEW o \in OptionRecords
  PROVE  /\ o.short = "S" => o.arg \in SizeTexts
         /\ o.short \in TakesText => o.arg \in Texts
         /\ o.short \in CommandOptions \cup FilterOptions \cup {"h", "N", "?"}
  BY DEF OptionRecords, TakesText, CommandOptions, CommandOf, FilterOptions

LEMMA ShortsAreDisjoint ==
  /\ CommandOptions \cap (FilterOptions \cup {"h", "N", "?"}) = {}
  /\ {"d", "C", "W", "H", "u", "U"} \subseteq CommandOptions
  /\ FilterOptions = {"D", "F", "S"}
  BY DEF CommandOptions, CommandOf, FilterOptions

LEMMA InitInv == Init => Inv
<1> SUFFICES ASSUME Init PROVE Inv
  OBVIOUS
<1>1. args \in Seq(OptionRecords) /\ next = 1
  BY ArgListsAssumption DEF Init
<1>2. TypeOK
  BY <1>1 DEF Init, TypeOK
<1>3. \A shorts : Seen(shorts) = {}
  BY <1>1 DEF Seen, Positions
<1>4. Prefix
  BY <1>3 DEF Init, Prefix, NothingRefused, CommandIsParsed, FlagsAreParsed
<1>5. rules = <<>> /\ DOMAIN rules = {}
  BY DEF Init
<1>6. RulesAreParsed
  BY <1>3, <1>5 DEF Init, RulesAreParsed
<1>7. Answered /\ EveryLegalCommandRuns
  BY DEF Init, Answered, EveryLegalCommandRuns
<1> QED BY <1>2, <1>4, <1>6, <1>7 DEF Inv

(* When every option has been parsed, what validate_options tests is what  *)
(* makes a command line legal.                                             *)
LEMMA ValidMeansLegal ==
  ASSUME TypeOK, Prefix, next = Len(args) + 1
  PROVE  rest = 1 /\ ValidOptions <=> Legal
<1> USE OptionFacts
<1>1. \A shorts : Seen(shorts) = Positions(shorts)
  BY DEF Seen, Positions
<1>2. /\ Positions({"h", "?"}) = {} /\ AtMostOneCommand
      /\ \A i \in Positions({"S"}) : IsExpressible(args[i].arg)
  BY <1>1 DEF Prefix, NothingRefused, CommandIsParsed, AtMostOneCommand
<1>3. /\ "filter" \in flags <=> Requests(FilterOptions)
      /\ "no-blob-protection" \in flags <=> Requests({"N"})
  BY <1>1 DEF Prefix, FlagsAreParsed, Requests
<1>4. CASE Positions(CommandOptions) = {}
  <2>1. command = "open-repo"
    BY <1>1, <1>4 DEF Prefix, CommandIsParsed
  <2>2. ~Requests({"u", "U"}) /\ ~Requests({"H", "u", "U"})
    BY <1>4, ShortsAreDisjoint DEF Requests, Positions
  <2> QED BY <1>2, <1>3, <2>1, <2>2, OpenRepoIsPlain DEF Legal, ValidOptions
<1>5. CASE Positions(CommandOptions) # {}
  <2>1. PICK i : i \in Positions(CommandOptions)
    BY <1>5
  <2>2. /\ Positions(CommandOptions) = {i} /\ args[i].short \in CommandOptions
        /\ i \in DOMAIN args
    BY <1>2, <2>1 DEF AtMostOneCommand, Positions
  <2>3. /\ command = CommandOf[args[i].short]
        /\ args[i].short = "u" => ref_name = args[i].arg
    BY <1>1, <2>1 DEF Prefix, CommandIsParsed
  <2>4. args[i].short = "u" => ref_name # NULL
    BY <2>2, <2>3, ArgumentFacts, NullAssumption DEF TakesText
  <2>5. /\ Requests({"u", "U"}) <=> args[i].short \in {"u", "U"}
        /\ Requests({"H", "u", "U"}) <=> args[i].short \in {"H", "u", "U"}
    BY <2>2, ShortsAreDisjoint DEF Requests, Positions
  <2>6. /\ command \in {"rewrite-ref", "rewrite-refs"} <=> args[i].short \in {"u", "U"}
        /\ command = "rewrite-ref" <=> args[i].short = "u"
        /\ SupportsBlobProtection(command) <=> args[i].short \in {"H", "u", "U"}
    BY <2>2, <2>3, CommandTable
  <2> QED BY <1>2, <1>3, <2>4, <2>5, <2>6 DEF Legal, ValidOptions
<1> QED BY <1>4, <1>5

-----------------------------------------------------------------------------
(* The steps. *)

(* A step that only answers, or goes on, leaves what was parsed alone. *)
LEMMA SameOptionsSamePrefix ==
  ASSUME Inv, UNCHANGED <<args, rest, next, options>>,
         pc' \in {"parse", "open", "filter", "command", "exit"},
         outcome' \in {"none", "help", "usage", "failed", "ran"}
  PROVE  TypeOK' /\ Prefix' /\ (Legal' <=> Legal)
<1>1. UNCHANGED <<args, rest, next, command, path, ref_name, rules, capacity, protect, flags>>
  BY DEF options
<1>2. TypeOK'
  BY <1>1 DEF Inv, TypeOK
<1>3. \A shorts : Positions(shorts)' = Positions(shorts) /\ Seen(shorts)' = Seen(shorts)
  BY <1>1 DEF Positions, Seen
<1>4. Prefix'
  BY <1>1, <1>3 DEF Inv, Prefix, NothingRefused, CommandIsParsed, FlagsAreParsed
<1>5. Legal' <=> Legal
  BY <1>1, <1>3 DEF Legal, AtMostOneCommand, Requests
<1> QED BY <1>2, <1>4, <1>5

(* The option that was just parsed joins those seen. *)
LEMMA SeenOneMore ==
  ASSUME Inv, pc = "parse", next \in DOMAIN args, NextOption
  PROVE  /\ \A shorts : Seen(shorts)' =
              IF Option.short \in shorts THEN Seen(shorts) \cup {next} ELSE Seen(shorts)
         /\ next' \in 1..(Len(args) + 1)
         /\ \A shorts : next \notin Seen(shorts)
         /\ Answered'
<1>1. /\ next \in 1..Len(args) /\ DOMAIN args = 1..Len(args) /\ Len(args) \in Nat
      /\ args' = args /\ next' = next + 1 /\ pc' = "parse" /\ outcome' = outcome
  BY OptionFacts DEF Inv, NextOption
<1>2. outcome = "none"
  BY DEF Inv, Answered
<1>3. Answered'
  BY <1>1, <1>2 DEF Answered
<1> QED BY <1>1, <1>3 DEF Seen, Positions, Option

LEMMA HelpStep == Inv /\ ParseHelp => Inv'
<1> SUFFICES ASSUME Inv, ParseHelp PROVE Inv'
  OBVIOUS
<1>1. /\ UNCHANGED <<args, rest, next, options>> /\ pc' = "exit" /\ outcome' = "help"
      /\ pc = "parse" /\ outcome = "none"
  BY DEF ParseHelp, Exit, AtOption, Inv, Answered
<1>2. TypeOK' /\ Prefix'
  BY <1>1, SameOptionsSamePrefix
<1>3. RulesAreParsed'
  <2>1. UNCHANGED <<args, next, rules>>
    BY <1>1 DEF options
  <2>2. \A shorts : Seen(shorts)' = Seen(shorts)
    BY <2>1 DEF Seen, Positions
  <2>3. outcome' # "failed" =>
          (pc' = "command" \/ outcome' = "ran" <=> pc = "command" \/ outcome = "ran")
    BY <1>1
  <2>4. /\ {rules'[i] : i \in DOMAIN rules'} = {rules[i] : i \in DOMAIN rules}
        /\ {ExactRule(args'[i]) : i \in Seen(FilterOptions)'}
             = {ExactRule(args[i]) : i \in Seen(FilterOptions)}
        /\ {DeletePath(args'[i].arg) : i \in Seen({"C", "W", "H"})'}
             = {DeletePath(args[i].arg) : i \in Seen({"C", "W", "H"})}
    BY <2>1, <2>2
  <2>5. CASE outcome' = "failed"
    BY <2>5 DEF RulesAreParsed
  <2>6. CASE outcome' # "failed" /\ (pc' = "command" \/ outcome' = "ran")
    BY <1>1, <2>3, <2>4, <2>6 DEF Inv, RulesAreParsed
  <2>7. CASE outcome' # "failed" /\ ~(pc' = "command" \/ outcome' = "ran")
    BY <1>1, <2>3, <2>4, <2>7 DEF Inv, RulesAreParsed
  <2> QED BY <2>5, <2>6, <2>7
<1>4. Answered' /\ EveryLegalCommandRuns'
  BY <1>1 DEF Answered, EveryLegalCommandRuns
<1> QED BY <1>2, <1>3, <1>4 DEF Inv

(* Every way to refuse a command line has a reason in it, or is a realloc  *)
(* that failed.                                                            *)
LEMMA UsageErrorStep ==
  ASSUME Inv, pc = "parse", UsageError,
         Legal => next \in Positions(FilterOptions) /\ Len(rules) = capacity
  PROVE  Inv'
<1>1. /\ UNCHANGED <<args, rest, next, options>> /\ pc' = "exit" /\ outcome' = "usage"
      /\ pc = "parse" /\ outcome = "none"
  BY DEF UsageError, Exit, Inv, Answered
<1>2. TypeOK' /\ Prefix' /\ (Legal' <=> Legal)
  BY <1>1, SameOptionsSamePrefix
<1>3. RulesAreParsed'
  BY <1>1 DEF Inv, RulesAreParsed, Seen, Positions, options
<1>4. Answered'
  BY <1>1 DEF Answered
<1>5. EveryLegalCommandRuns'
  BY <1>1, <1>2 DEF EveryLegalCommandRuns, Positions, options
<1> QED BY <1>2, <1>3, <1>4, <1>5 DEF Inv

LEMMA NoProtectionStep == Inv /\ ParseNoBlobProtection => Inv'
<1> SUFFICES ASSUME Inv, ParseNoBlobProtection PROVE Inv'
  OBVIOUS
<1>1. /\ pc = "parse" /\ next \in DOMAIN args /\ Option.short = "N" /\ NextOption
      /\ protect' = FALSE /\ flags' = flags \cup {"no-blob-protection"}
      /\ UNCHANGED <<args, rest, pc, outcome, command, path, ref_name, rules, capacity>>
  BY DEF ParseNoBlobProtection, AtOption, NextOption
<1>2. outcome = "none"
  BY <1>1 DEF Inv, Answered
<1>3. TypeOK'
  BY <1>1, SeenOneMore DEF Inv, TypeOK
<1>4. /\ \A shorts : "N" \notin shorts => Seen(shorts)' = Seen(shorts)
      /\ Seen({"N"})' # {}
  BY <1>1, SeenOneMore
<1>5. /\ Seen({"h", "?"})' = Seen({"h", "?"}) /\ Seen({"S"})' = Seen({"S"})
      /\ Seen(CommandOptions)' = Seen(CommandOptions)
      /\ Seen(FilterOptions)' = Seen(FilterOptions)
      /\ Seen({"C", "W", "H"})' = Seen({"C", "W", "H"})
  BY <1>4, ShortsAreDisjoint
<1>6. NothingRefused' /\ CommandIsParsed' /\ RulesAreParsed'
  BY <1>1, <1>2, <1>5 DEF Inv, Prefix, NothingRefused, CommandIsParsed, RulesAreParsed
<1>7. FlagsAreParsed'
  BY <1>1, <1>4, <1>5 DEF Inv, Prefix, FlagsAreParsed
<1>8. Answered' /\ EveryLegalCommandRuns'
  BY <1>1, <1>2, SeenOneMore DEF EveryLegalCommandRuns
<1> QED BY <1>3, <1>6, <1>7, <1>8 DEF Inv, Prefix

Rules == [kind : {"path"}, path : Texts] \cup [kind : {"filename"}, name : Texts]
           \cup [kind : {"large"}, max : 0..MaxSize]

LEMMA AppendFacts ==
  ASSUME TypeOK, NEW rule \in Rules, AppendRule(rule)
  PROVE  /\ rules' \in Seq(Rules) /\ capacity' \in Nat /\ Len(rules') <= capacity'
         /\ Len(rules') > 0
         /\ {rules'[i] : i \in DOMAIN rules'} = {rules[i] : i \in DOMAIN rules} \cup {rule}
<1>1. /\ rules \in Seq(Rules) /\ capacity \in Nat /\ Len(rules) <= capacity
      /\ rules' = Append(rules, rule) /\ Len(rules) \in Nat /\ DOMAIN rules = 1..Len(rules)
  BY DEF TypeOK, Rules, AppendRule
<1>2. /\ rules' \in Seq(Rules) /\ Len(rules') = Len(rules) + 1
      /\ DOMAIN rules' = 1..(Len(rules) + 1)
      /\ \A i \in 1..Len(rules) : rules'[i] = rules[i]
      /\ rules'[Len(rules) + 1] = rule
  BY <1>1
<1>3. capacity' \in Nat /\ Len(rules') <= capacity'
  <2>1. CASE Len(rules) # capacity
    <3>1. capacity' = capacity
      BY <2>1 DEF AppendRule
    <3>2. \A n, c \in Nat : n <= c /\ n # c => n + 1 <= c
      OBVIOUS
    <3>3. Len(rules) + 1 <= capacity
      BY <1>1, <2>1, <3>2, Zenon
    <3> QED BY <1>1, <1>2, <3>1, <3>3
  <2>2. CASE Len(rules) = capacity /\ capacity = 0
    BY <1>1, <1>2, <2>2, CapacityAssumption DEF AppendRule
  <2>3. CASE Len(rules) = capacity /\ capacity # 0
    BY <1>1, <1>2, <2>3 DEF AppendRule
  <2> QED BY <2>1, <2>2, <2>3
<1>4. {rules'[i] : i \in DOMAIN rules'} = {rules[i] : i \in DOMAIN rules} \cup {rule}
  BY <1>1, <1>2
<1> QED BY <1>1, <1>2, <1>3, <1>4

LEMMA FilterOptionStep == Inv /\ ParseFilterOption => Inv'
<1> SUFFICES ASSUME Inv, ParseFilterOption PROVE Inv'
  OBVIOUS
<1>1. /\ pc = "parse" /\ next \in DOMAIN args /\ Option.short \in FilterOptions /\ NextOption
      /\ ~RefusedSize /\ AppendRule(RuleOf(Option)) /\ flags' = flags \cup {"filter"}
      /\ UNCHANGED <<args, rest, pc, outcome, command, path, ref_name, protect>>
  BY DEF ParseFilterOption, AtOption, NextOption
<1>2. outcome = "none" /\ TypeOK
  BY <1>1 DEF Inv, Answered
<1>3. Option \in OptionRecords
  BY <1>1, <1>2, OptionFacts DEF Option
<1>4. /\ RuleOf(Option) = ExactRule(Option) /\ RuleOf(Option) \in Rules
      /\ Option.short = "S" => IsExpressible(Option.arg)
  <2>1. CASE Option.short = "S"
    <3>1. Option.arg \in SizeTexts /\ SizeFits(Option.arg)
      BY <1>1, <1>3, <2>1, ArgumentFacts DEF RefusedSize
    <3> QED BY <2>1, <3>1, SizesAreExact DEF RuleOf, ExactRule, DeleteLargeBlob, Rules
  <2>2. CASE Option.short \in {"D", "F"}
    BY <1>3, <2>2, ArgumentFacts DEF RuleOf, ExactRule, DeletePath, DeleteFilename, Rules, TakesText
  <2> QED BY <1>1, <2>1, <2>2, ShortsAreDisjoint
<1>5. /\ rules' \in Seq(Rules) /\ capacity' \in Nat /\ Len(rules') <= capacity'
      /\ {rules'[i] : i \in DOMAIN rules'} = {rules[i] : i \in DOMAIN rules} \cup {ExactRule(Option)}
  BY <1>1, <1>2, <1>4, AppendFacts
<1>6. TypeOK'
  BY <1>1, <1>2, <1>5, SeenOneMore DEF TypeOK, Rules
<1>7. \A shorts : Option.short \notin shorts => Seen(shorts)' = Seen(shorts)
  BY <1>1, SeenOneMore
<1>8. /\ Seen({"h", "?"})' = Seen({"h", "?"})
      /\ Seen({"N"})' = Seen({"N"})
      /\ Seen(CommandOptions)' = Seen(CommandOptions)
      /\ Seen(FilterOptions)' = Seen(FilterOptions) \cup {next}
      /\ Seen({"S"})' = IF Option.short = "S" THEN Seen({"S"}) \cup {next} ELSE Seen({"S"})
  <2>1. Option.short \notin {"h", "?"} /\ Option.short # "N" /\ Option.short \notin CommandOptions
    BY <1>1, ShortsAreDisjoint
  <2>2. /\ Seen({"h", "?"})' = Seen({"h", "?"}) /\ Seen({"N"})' = Seen({"N"})
        /\ Seen(CommandOptions)' = Seen(CommandOptions)
    BY <1>7, <2>1
  <2>3. Seen(FilterOptions)' = Seen(FilterOptions) \cup {next}
    BY <1>1, SeenOneMore
  <2>4. Seen({"S"})' = IF Option.short = "S" THEN Seen({"S"}) \cup {next} ELSE Seen({"S"})
    BY <1>1, SeenOneMore
  <2> QED BY <2>2, <2>3, <2>4
<1>9. NothingRefused'
  BY <1>1, <1>4, <1>8 DEF Inv, Prefix, NothingRefused, Option
<1>10. CommandIsParsed' /\ FlagsAreParsed'
  BY <1>1, <1>8 DEF Inv, Prefix, CommandIsParsed, FlagsAreParsed
<1>11. RulesAreParsed'
  BY <1>1, <1>2, <1>5, <1>8 DEF Inv, RulesAreParsed, Option
<1>12. Answered' /\ EveryLegalCommandRuns'
  BY <1>1, <1>2, SeenOneMore DEF EveryLegalCommandRuns
<1> QED BY <1>6, <1>9, <1>10, <1>11, <1>12 DEF Inv, Prefix

LEMMA FilterOptionFailsStep == Inv /\ ParseFilterOptionFails => Inv'
<1> SUFFICES ASSUME Inv, ParseFilterOptionFails PROVE Inv'
  OBVIOUS
<1>1. /\ pc = "parse" /\ next \in Positions(FilterOptions) /\ UsageError
      /\ RefusedSize \/ ReallocFails
  BY DEF ParseFilterOptionFails, AtOption, Positions, Option
<1>2. RefusedSize => ~Legal
  <2>1. Option \in OptionRecords
    BY <1>1, OptionFacts DEF Inv, Option, Positions
  <2>2. RefusedSize => next \in Positions({"S"}) /\ ~IsExpressible(args[next].arg)
    BY <1>1, <2>1, ArgumentFacts, SizesAreExact DEF RefusedSize, Option, Positions
  <2> QED BY <2>2 DEF Legal
<1> QED BY <1>1, <1>2, UsageErrorStep DEF ReallocFails

LEMMA CommandOptionStep == Inv /\ ParseCommandOption => Inv'
<1> SUFFICES ASSUME Inv, ParseCommandOption PROVE Inv'
  OBVIOUS
<1> DEFINE cmd == CommandOf[Option.short]
<1>1. /\ pc = "parse" /\ next \in DOMAIN args /\ Option.short \in CommandOptions /\ NextOption
      /\ command = "open-repo" /\ command' = cmd
      /\ path' = IF UsesPath(cmd) THEN Option.arg ELSE path
      /\ ref_name' = IF cmd = "rewrite-ref" THEN Option.arg ELSE ref_name
      /\ UNCHANGED <<args, rest, pc, outcome, rules, capacity, protect, flags>>
  BY DEF ParseCommandOption, AtOption, NextOption
<1>2. outcome = "none" /\ TypeOK /\ Seen(CommandOptions) = {}
  BY <1>1 DEF Inv, Answered, Prefix, CommandIsParsed
<1>3. Option \in OptionRecords
  BY <1>1, <1>2, OptionFacts DEF Option
<1>4. /\ cmd # "open-repo"
      /\ cmd = "rewrite-ref" <=> Option.short = "u"
      /\ UsesPath(cmd) <=> Option.short \in {"d", "C", "W", "H"}
  BY <1>1, CommandTable
<1> HIDE DEF cmd
<1>5. Option.short \in {"d", "C", "W", "H", "u"} => Option.arg \in Texts
  BY <1>3, ArgumentFacts DEF TakesText
<1>6. TypeOK'
  <2>1. cmd \in {CommandOf[s] : s \in CommandOptions}
    BY <1>1 DEF cmd
  <2>2. path' \in Texts \cup {NULL} /\ ref_name' \in Texts \cup {NULL}
    BY <1>1, <1>2, <1>4, <1>5 DEF TypeOK
  <2> QED BY <1>1, <1>2, <2>1, <2>2, SeenOneMore DEF TypeOK
<1>7. \A shorts : Option.short \notin shorts => Seen(shorts)' = Seen(shorts)
  BY <1>1, SeenOneMore
<1>8. /\ Seen({"h", "?"})' = Seen({"h", "?"})
      /\ Seen({"N"})' = Seen({"N"})
      /\ Seen({"S"})' = Seen({"S"})
      /\ Seen(FilterOptions)' = Seen(FilterOptions)
      /\ Seen(CommandOptions)' = {next}
  <2>1. /\ Option.short \notin {"h", "?"} /\ Option.short # "N"
        /\ Option.short # "S" /\ Option.short \notin FilterOptions
    BY <1>1, ShortsAreDisjoint
  <2>2. /\ Seen({"h", "?"})' = Seen({"h", "?"}) /\ Seen({"N"})' = Seen({"N"})
        /\ Seen({"S"})' = Seen({"S"}) /\ Seen(FilterOptions)' = Seen(FilterOptions)
    BY <1>7, <2>1
  <2>3. Seen(CommandOptions)' = {next}
    BY <1>1, <1>2, SeenOneMore
  <2> QED BY <2>2, <2>3
<1>9. NothingRefused' /\ FlagsAreParsed'
  BY <1>1, <1>8 DEF Inv, Prefix, NothingRefused, FlagsAreParsed
<1>10. CommandIsParsed'
  <2>1. args' = args /\ args[next] = Option
    BY <1>1 DEF Option
  <2>2. /\ Option.short = "u" => ref_name' = Option.arg
        /\ Option.short \in {"d", "C", "W", "H"} => path' = Option.arg
    BY <1>1, <1>4
  <2>3. command' = CommandOf[Option.short] /\ command' # "open-repo"
    BY <1>1, <1>4 DEF cmd
  <2> QED BY <1>8, <2>1, <2>2, <2>3 DEF CommandIsParsed
<1>11. RulesAreParsed'
  BY <1>1, <1>2, <1>8 DEF Inv, RulesAreParsed
<1>12. Answered' /\ EveryLegalCommandRuns'
  BY <1>1, <1>2, SeenOneMore DEF EveryLegalCommandRuns
<1> QED BY <1>6, <1>9, <1>10, <1>11, <1>12 DEF Inv, Prefix

LEMMA RefusedOptionStep == Inv /\ (SecondCommandOption \/ UnknownOption) => Inv'
<1> SUFFICES ASSUME Inv, SecondCommandOption \/ UnknownOption PROVE Inv'
  OBVIOUS
<1>1. pc = "parse" /\ next \in DOMAIN args /\ UsageError
  BY DEF SecondCommandOption, UnknownOption, AtOption
<1>2. ASSUME SecondCommandOption PROVE ~Legal
  <2>1. next \in Positions(CommandOptions) /\ command # "open-repo"
    BY <1>2 DEF SecondCommandOption, AtOption, Option, Positions
  <2>2. PICK i : i \in Seen(CommandOptions)
    BY <2>1 DEF Inv, Prefix, CommandIsParsed
  <2>3. i \in Positions(CommandOptions) /\ i # next
    BY <2>2, <1>1, OptionFacts DEF Seen, Positions, Inv
  <2> QED BY <2>1, <2>3 DEF Legal, AtMostOneCommand
<1>3. ASSUME UnknownOption PROVE ~Legal
  BY <1>3 DEF UnknownOption, AtOption, Option, Legal, Positions
<1> QED BY <1>1, <1>2, <1>3, UsageErrorStep

LEMMA FinishOptionsStep == Inv /\ FinishOptions => Inv'
<1> SUFFICES ASSUME Inv, FinishOptions PROVE Inv'
  OBVIOUS
<1>1. pc = "parse" /\ next \notin DOMAIN args /\ outcome = "none"
  BY DEF FinishOptions, Inv, Answered
<1>2. next = Len(args) + 1
  BY <1>1, OptionFacts DEF Inv, TypeOK
<1>3. rest = 1 /\ ValidOptions <=> Legal
  BY <1>2, ValidMeansLegal DEF Inv
<1>4. CASE ~(rest = 1 /\ ValidOptions)
  <2>1. UsageError
    BY <1>4 DEF FinishOptions, UsageError
  <2> QED BY <1>1, <1>3, <1>4, <2>1, UsageErrorStep
<1>5. CASE rest = 1 /\ ValidOptions
  <2>1. pc' = "open" /\ outcome' = outcome /\ UNCHANGED <<args, rest, next, options>>
    BY <1>5 DEF FinishOptions
  <2>2. TypeOK' /\ Prefix' /\ (Legal' <=> Legal)
    BY <1>1, <2>1, SameOptionsSamePrefix
  <2>3. RulesAreParsed'
    BY <1>1, <2>1 DEF Inv, RulesAreParsed, Seen, Positions, options
  <2>4. Answered' /\ EveryLegalCommandRuns'
    BY <1>1, <1>2, <1>3, <1>5, <2>1, <2>2 DEF Answered, EveryLegalCommandRuns
  <2> QED BY <2>2, <2>3, <2>4 DEF Inv
<1> QED BY <1>4, <1>5

LEMMA OpenStep ==
  Inv /\ (OpenRepository \/ OpenFails \/ AddPathFilterFails \/ RunCommand) => Inv'
<1> SUFFICES ASSUME Inv, OpenRepository \/ OpenFails \/ AddPathFilterFails \/ RunCommand
             PROVE  Inv'
  OBVIOUS
<1>1. /\ UNCHANGED <<args, rest, next, options>> /\ pc \in {"open", "filter", "command"}
      /\ outcome = "none" /\ next = Len(args) + 1 /\ Legal
      /\ \/ pc = "open" /\ pc' = "filter" /\ outcome' = "none"
         \/ pc' = "exit" /\ outcome' = "failed"
         \/ pc = "command" /\ pc' = "exit" /\ outcome' \in {"ran", "failed"}
  BY DEF OpenRepository, OpenFails, AddPathFilterFails, RunCommand, Exit, Inv, Answered
<1>2. TypeOK' /\ Prefix' /\ (Legal' <=> Legal)
  BY <1>1, SameOptionsSamePrefix
<1>3. RulesAreParsed'
  <2>1. UNCHANGED <<args, next, rules>>
    BY <1>1 DEF options
  <2>2. \A shorts : Seen(shorts)' = Seen(shorts)
    BY <2>1 DEF Seen, Positions
  <2>3. outcome' # "failed" =>
          (pc' = "command" \/ outcome' = "ran" <=> pc = "command" \/ outcome = "ran")
    BY <1>1
  <2>4. /\ {rules'[i] : i \in DOMAIN rules'} = {rules[i] : i \in DOMAIN rules}
        /\ {ExactRule(args'[i]) : i \in Seen(FilterOptions)'}
             = {ExactRule(args[i]) : i \in Seen(FilterOptions)}
        /\ {DeletePath(args'[i].arg) : i \in Seen({"C", "W", "H"})'}
             = {DeletePath(args[i].arg) : i \in Seen({"C", "W", "H"})}
    BY <2>1, <2>2
  <2>5. CASE outcome' = "failed"
    BY <2>5 DEF RulesAreParsed
  <2>6. CASE outcome' # "failed" /\ (pc' = "command" \/ outcome' = "ran")
    BY <1>1, <2>3, <2>4, <2>6 DEF Inv, RulesAreParsed
  <2>7. CASE outcome' # "failed" /\ ~(pc' = "command" \/ outcome' = "ran")
    BY <1>1, <2>3, <2>4, <2>7 DEF Inv, RulesAreParsed
  <2> QED BY <2>5, <2>6, <2>7
<1>4. Answered' /\ EveryLegalCommandRuns'
  BY <1>1, <1>2 DEF Answered, EveryLegalCommandRuns, options
<1> QED BY <1>2, <1>3, <1>4 DEF Inv

LEMMA AddPathFilterStep == Inv /\ AddPathFilter => Inv'
<1> SUFFICES ASSUME Inv, AddPathFilter PROVE Inv'
  OBVIOUS
<1>1. /\ pc = "filter" /\ pc' = "command" /\ outcome = "none" /\ outcome' = "none"
      /\ next = Len(args) + 1 /\ Legal /\ TypeOK
      /\ UNCHANGED <<args, rest, next, command, path, ref_name, protect, flags>>
  BY DEF AddPathFilter, Inv, Answered
<1>2. \A shorts : /\ Positions(shorts)' = Positions(shorts)
                  /\ Seen(shorts)' = Seen(shorts)
  BY <1>1 DEF Positions, Seen
<1>3. \A i \in Seen({"C", "W", "H"}) :
        /\ i \in Seen(CommandOptions) /\ path = args[i].arg /\ AddsPathFilter(command)
  BY CommandTable, ShortsAreDisjoint DEF Inv, Prefix, CommandIsParsed, Seen, Positions
<1>4. Prefix'
  BY <1>1, <1>2 DEF Inv, Prefix, NothingRefused, CommandIsParsed, FlagsAreParsed
<1>5. Answered' /\ EveryLegalCommandRuns'
  BY <1>1, <1>2 DEF Answered, EveryLegalCommandRuns, Legal, AtMostOneCommand, Requests
<1>6. CASE AddsPathFilter(command)
  <2>1. PICK i : i \in Seen(CommandOptions)
    BY <1>6, OpenRepoIsPlain DEF Inv, Prefix, CommandIsParsed
  <2>2. /\ i \in Seen({"C", "W", "H"}) /\ path = args[i].arg /\ path \in Texts
    <3>1. command = CommandOf[args[i].short] /\ args[i].short \in CommandOptions
      BY <2>1 DEF Inv, Prefix, CommandIsParsed, Seen, Positions
    <3>2. args[i].short \in {"C", "W", "H"}
      BY <3>1, <1>6, CommandTable
    <3>3. i \in Seen({"C", "W", "H"}) /\ i \in DOMAIN args
      BY <2>1, <3>2 DEF Seen, Positions
    <3>4. path = args[i].arg
      BY <2>1, <3>2 DEF Inv, Prefix, CommandIsParsed
    <3>5. args[i].arg \in Texts
      BY <1>1, <3>2, <3>3, OptionFacts, ArgumentFacts DEF TakesText
    <3> QED BY <3>3, <3>4, <3>5
  <2>3. AppendRule(DeletePath(path)) /\ DeletePath(path) \in Rules
    BY <1>6, <2>2 DEF AddPathFilter, DeletePath, Rules
  <2>4. /\ rules' \in Seq(Rules) /\ capacity' \in Nat /\ Len(rules') <= capacity'
        /\ {rules'[k] : k \in DOMAIN rules'} = {rules[k] : k \in DOMAIN rules} \cup {DeletePath(path)}
    BY <1>1, <2>3, AppendFacts
  <2>5. TypeOK'
    BY <1>1, <2>4 DEF TypeOK, Rules
  <2>6. {DeletePath(args[k].arg) : k \in Seen({"C", "W", "H"})} = {DeletePath(path)}
    BY <1>3, <2>2
  <2>7. RulesAreParsed'
    BY <1>1, <1>2, <2>4, <2>6 DEF Inv, RulesAreParsed
  <2> QED BY <1>4, <1>5, <2>5, <2>7 DEF Inv
<1>7. CASE ~AddsPathFilter(command)
  <2>1. UNCHANGED <<rules, capacity>>
    BY <1>7 DEF AddPathFilter
  <2>2. TypeOK'
    BY <1>1, <2>1 DEF TypeOK
  <2>3. Seen({"C", "W", "H"}) = {}
    BY <1>3, <1>7
  <2>4. RulesAreParsed'
    BY <1>1, <1>2, <2>1, <2>3 DEF Inv, RulesAreParsed
  <2> QED BY <1>4, <1>5, <2>2, <2>4 DEF Inv
<1> QED BY <1>6, <1>7

LEMMA InvIsInductive == Inv /\ [Next]_vars => Inv'
<1> SUFFICES ASSUME Inv, [Next]_vars PROVE Inv'
  OBVIOUS
<1>1. CASE UNCHANGED vars
  <2>1. UNCHANGED <<args, rest, next, options>> /\ UNCHANGED <<pc, outcome>>
    BY <1>1 DEF vars, options
  <2>2. TypeOK' /\ Prefix' /\ (Legal' <=> Legal)
    BY <2>1, SameOptionsSamePrefix DEF Inv, TypeOK
  <2>3. RulesAreParsed' /\ Answered' /\ EveryLegalCommandRuns'
    BY <2>1, <2>2 DEF Inv, RulesAreParsed, Answered, EveryLegalCommandRuns, Seen, Positions, options
  <2> QED BY <2>2, <2>3 DEF Inv
<1> QED
  BY <1>1, HelpStep, NoProtectionStep, FilterOptionStep, FilterOptionFailsStep, CommandOptionStep,
     RefusedOptionStep, FinishOptionsStep, OpenStep, AddPathFilterStep DEF Next

-----------------------------------------------------------------------------
LEMMA Invariance == Spec => []Inv
  BY InitInv, InvIsInductive, PTL DEF Spec

(* The parser keeps every variable, and the array of rules, within bounds.  *)
THEOREM TypeCorrect == Spec => []TypeOK
<1>1. Inv => TypeOK
  BY DEF Inv
<1> QED BY <1>1, Invariance, PTL

(* Whatever the options are and however many: no repository is opened for  *)
(* a command line that is not legal.                                       *)
THEOREM IllegalCommandsAreRefused == Spec => []OnlyLegalCommandsRun
<1>1. Inv => OnlyLegalCommandsRun
  BY DEF Inv, Answered, OnlyLegalCommandsRun
<1> QED BY <1>1, Invariance, PTL

(* A legal command line is refused only where a realloc failed; the sizes  *)
(* that parse_blob_size accepts are exactly those that fit.                *)
THEOREM LegalCommandsAreAccepted == Spec => []EveryLegalCommandRuns
<1>1. Inv => EveryLegalCommandRuns
  BY DEF Inv
<1> QED BY <1>1, Invariance, PTL

(* The command runs with the rules asked for, no more and no fewer, and    *)
(* with sizes that did not wrap.                                           *)
THEOREM CommandsRunAsAsked == Spec => []RunsWhatWasAsked
<1>1. Inv => RunsWhatWasAsked
  <2> SUFFICES ASSUME Inv, pc = "command" \/ outcome = "ran" PROVE RunsWhatWasAsked
    BY DEF RunsWhatWasAsked
  <2>1. next = Len(args) + 1 /\ Legal /\ outcome # "failed"
    BY DEF Inv, Answered
  <2>2. \A shorts : Seen(shorts) = Positions(shorts)
    BY <2>1, OptionFacts DEF Seen, Positions, Inv
  <2>3. {rules[i] : i \in DOMAIN rules} =
          {ExactRule(args[i]) : i \in Positions(FilterOptions)} \cup
            {DeletePath(args[i].arg) : i \in Positions({"C", "W", "H"})}
    BY <2>1, <2>2 DEF Inv, RulesAreParsed
  <2>4. Requests({"C", "W", "H", "u", "U"}) => Len(rules) > 0
    <3> SUFFICES ASSUME Requests({"C", "W", "H", "u", "U"}) PROVE DOMAIN rules # {}
      BY OptionFacts DEF Inv
    <3>1. Requests({"C", "W", "H"}) \/ Requests(FilterOptions)
      BY <2>1 DEF Legal, Requests, Positions
    <3> QED BY <2>3, <3>1 DEF Requests
  <2>5. protect <=> ~Requests({"N"})
    BY <2>2 DEF Inv, Prefix, FlagsAreParsed, Requests
  <2>6. \A i \in Positions(CommandOptions) :
          /\ command = CommandOf[args[i].short]
          /\ args[i].short = "u" => ref_name = args[i].arg
          /\ args[i].short = "d" => path = args[i].arg
    BY <2>2 DEF Inv, Prefix, CommandIsParsed
  <2> QED BY <2>3, <2>4, <2>5, <2>6 DEF RunsWhatWasAsked
<1> QED BY <1>1, Invariance, PTL
=============================================================================

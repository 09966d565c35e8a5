---------------------------- MODULE CommandLine -----------------------------
(***************************************************************************)
(* From the arguments of bbfg to the command it runs: bbfg_parse_options   *)
(* of src/src/cli.c and main of src/src/main.c.                            *)
(*                                                                         *)
(* getopt_long is external: it splits argv into options with their         *)
(* arguments, up to the first argument that is no option (the "+" of the   *)
(* option string) and reports an unknown option, or one whose argument is  *)
(* missing, as "?".  Of what is left only the number matters.              *)
(***************************************************************************)
EXTENDS FilterRules, Naturals, Sequences

CONSTANTS
  ArgLists,      \* the sequences of options considered
  Texts,         \* the paths, file names and ref names given as arguments
  NULL,          \* no argument
  MaxSize,       \* UINT64_MAX
  Kilo,          \* 1024
  FirstCapacity  \* the first size of filter->rules, 4 in the code

(* command_options, the rows with a short name: what each one asks for. *)
CommandOf ==
  [c |-> "head-commit", t |-> "head-tree", T |-> "list-head-tree", r |-> "list-refs",
   R |-> "list-rewrite-refs", w |-> "walk-rewrite-commits", B |-> "rebuild-head-tree",
   d |-> "remove-head-entry", C |-> "commit-without-entry", W |-> "write-rewrite-ref",
   H |-> "rewrite-head-history", u |-> "rewrite-ref", U |-> "rewrite-refs"]
CommandOptions == DOMAIN CommandOf
FilterOptions == {"D", "F", "S"}

UsesPath(cmd) ==
  cmd \in {"remove-head-entry", "commit-without-entry", "write-rewrite-ref",
           "rewrite-head-history"}
SupportsBlobProtection(cmd) ==
  cmd \in {"rewrite-head-history", "rewrite-ref", "rewrite-refs"}

AddsPathFilter(cmd) ==
  cmd \in {"commit-without-entry", "write-rewrite-ref", "rewrite-head-history"}

(* The argument of "S" as strtoull sees it: whether it begins with a digit, *)
(* the number its digits write, and what follows them ("other": anything   *)
(* that is not one of the suffixes).                                       *)
SizeTexts ==
  [digit : BOOLEAN, number : Nat, suffix : {"", "K", "M", "G", "T", "other"}]

TakesText == {"d", "C", "W", "H", "u", "D", "F"}
OptionRecords ==
  [short : TakesText, arg : Texts] \cup [short : {"S"}, arg : SizeTexts]
    \cup [short : (CommandOptions \ TakesText) \cup {"h", "N", "?"}, arg : {NULL}]

ASSUME ArgListsAssumption == \A list \in ArgLists : list \in Seq(OptionRecords)
ASSUME NullAssumption == NULL \notin Texts
ASSUME SizesAssumption ==
  /\ Kilo \in Nat \ {0} /\ MaxSize \in Nat
  /\ Kilo * (Kilo * (Kilo * Kilo)) <= MaxSize
ASSUME CapacityAssumption == FirstCapacity \in Nat \ {0}

VARIABLES
  args,      \* the options of the command line
  rest,      \* the number of arguments after them
  next,      \* the option to be parsed
  command,   \* options->command
  path,      \* options->path
  ref_name,  \* options->ref_name
  rules,     \* options->filter.rules, as long as filter.count
  capacity,  \* options->filter.capacity
  protect,   \* options->filter.protect_blobs
  flags,     \* option_flags
  pc,        \* "parse", "open", "filter", "command", "exit"
  outcome    \* "none", "help", "usage" (printed to stderr), "failed", "ran"

vars == <<args, rest, next, command, path, ref_name, rules, capacity, protect, flags, pc, outcome>>
options == <<command, path, ref_name, rules, capacity, protect, flags>>

Init ==
  /\ args \in ArgLists /\ rest \in 0..2
  /\ next = 1
  /\ command = "open-repo" /\ path = NULL /\ ref_name = NULL
  /\ rules = <<>> /\ capacity = 0 /\ protect = TRUE
  /\ flags = {}
  /\ pc = "parse" /\ outcome = "none"

-----------------------------------------------------------------------------
(* parse_blob_size, in arithmetic that wraps at MaxSize + 1. *)

Multiplier(suffix) ==
  CASE suffix = "K" -> Kilo
    [] suffix = "M" -> Kilo * Kilo
    [] suffix = "G" -> Kilo * (Kilo * Kilo)
    [] suffix = "T" -> Kilo * (Kilo * (Kilo * Kilo))
    [] OTHER        -> 1

IsSize(text) == text.digit /\ text.number <= MaxSize /\ text.suffix # "other"

(* Defects: the product is not checked; the check is off by one.           *)
SizeFitsUnchecked(text) == IsSize(text)
SizeFitsStrictly(text) ==
  IsSize(text) /\ text.number < MaxSize \div Multiplier(text.suffix)

SizeFits(text) ==
  IsSize(text) /\ text.number <= MaxSize \div Multiplier(text.suffix)
ParsedSize(text) == (text.number * Multiplier(text.suffix)) % (MaxSize + 1)

-----------------------------------------------------------------------------
(* The loop of bbfg_parse_options: parse_option. *)

Exit(how) == pc' = "exit" /\ outcome' = how

Option == args[next]
AtOption(shorts) == pc = "parse" /\ next \in DOMAIN args /\ Option.short \in shorts
NextOption == next' = next + 1 /\ UNCHANGED <<args, rest, pc, outcome>>
UsageError == Exit("usage") /\ UNCHANGED <<args, rest, next, options>>

ParseHelp ==
  /\ AtOption({"h"})
  /\ Exit("help")
  /\ UNCHANGED <<args, rest, next, options>>

ParseNoBlobProtection ==
  /\ AtOption({"N"})
  /\ protect' = FALSE
  /\ flags' = flags \cup {"no-blob-protection"}
  /\ NextOption
  /\ UNCHANGED <<command, path, ref_name, rules, capacity>>

(* Defect: append_rule does not grow the array. *)
AppendRuleInPlace(rule) ==
  rules' = Append(rules, rule) /\ UNCHANGED capacity

(* append_rule: its array grows when full. *)
AppendRule(rule) ==
  /\ rules' = Append(rules, rule)
  /\ capacity' = IF Len(rules) # capacity THEN capacity
                 ELSE IF capacity = 0 THEN FirstCapacity ELSE 2 * capacity
ReallocFails == Len(rules) = capacity

RuleOf(option) ==
  CASE option.short = "D" -> DeletePath(option.arg)
    [] option.short = "F" -> DeleteFilename(option.arg)
    [] option.short = "S" -> DeleteLargeBlob(ParsedSize(option.arg))

(* parse_filter_option *)
RefusedSize == Option.short = "S" /\ ~SizeFits(Option.arg)

ParseFilterOption ==
  /\ AtOption(FilterOptions) /\ ~RefusedSize
  /\ AppendRule(RuleOf(Option))
  /\ flags' = flags \cup {"filter"}
  /\ NextOption
  /\ UNCHANGED <<command, path, ref_name, protect>>

ParseFilterOptionFails ==
  /\ AtOption(FilterOptions)
  /\ RefusedSize \/ ReallocFails
  /\ UsageError

ParseCommandOption ==
  /\ AtOption(CommandOptions) /\ command = "open-repo"
  /\ LET cmd == CommandOf[Option.short] IN
       /\ path' = IF UsesPath(cmd) THEN Option.arg ELSE path
       /\ ref_name' = IF cmd = "rewrite-ref" THEN Option.arg ELSE ref_name
       /\ command' = cmd
  /\ NextOption
  /\ UNCHANGED <<rules, capacity, protect, flags>>

(* The code stores path or ref_name before it refuses, and drops the options. *)
SecondCommandOption ==
  /\ AtOption(CommandOptions) /\ command # "open-repo"
  /\ UsageError

UnknownOption == AtOption({"?"}) /\ UsageError

-----------------------------------------------------------------------------
(* finish_options and main. *)

(* Defect: any command that rewrites takes filters. *)
ValidOptionsLoose ==
  /\ "no-blob-protection" \in flags => SupportsBlobProtection(command)
  /\ IF SupportsBlobProtection(command)
     THEN "filter" \in flags
     ELSE "filter" \notin flags

(* validate_options *)
ValidOptions ==
  /\ "no-blob-protection" \in flags => SupportsBlobProtection(command)
  /\ IF command \in {"rewrite-ref", "rewrite-refs"}
     THEN "filter" \in flags /\ (command = "rewrite-ref" => ref_name # NULL)
     ELSE "filter" \notin flags

FinishOptions ==
  /\ pc = "parse" /\ next \notin DOMAIN args
  /\ IF rest = 1 /\ ValidOptions
     THEN pc' = "open" /\ UNCHANGED outcome
     ELSE Exit("usage")
  /\ UNCHANGED <<args, rest, next, options>>

(* git_libgit2_init and git_repository_open. *)
OpenRepository ==
  /\ pc = "open"
  /\ pc' = "filter" /\ UNCHANGED <<args, rest, next, options, outcome>>

OpenFails ==
  /\ pc = "open"
  /\ Exit("failed")
  /\ UNCHANGED <<args, rest, next, options>>

(* add_command_path_filter *)
AddPathFilter ==
  /\ pc = "filter"
  /\ pc' = "command"
  /\ IF AddsPathFilter(command) THEN AppendRule(DeletePath(path))
     ELSE UNCHANGED <<rules, capacity>>
  /\ UNCHANGED <<args, rest, next, command, path, ref_name, protect, flags, outcome>>

AddPathFilterFails ==
  /\ pc = "filter" /\ AddsPathFilter(command) /\ ReallocFails
  /\ Exit("failed")
  /\ UNCHANGED <<args, rest, next, options>>

(* The command itself, which may fail. *)
RunCommand ==
  /\ pc = "command"
  /\ \E how \in {"ran", "failed"} : Exit(how)
  /\ UNCHANGED <<args, rest, next, options>>

Next ==
  \/ ParseHelp \/ ParseNoBlobProtection
  \/ ParseFilterOption \/ ParseFilterOptionFails
  \/ ParseCommandOption \/ SecondCommandOption \/ UnknownOption
  \/ FinishOptions \/ OpenRepository \/ OpenFails
  \/ AddPathFilter \/ AddPathFilterFails \/ RunCommand

Spec == Init /\ [][Next]_vars

-----------------------------------------------------------------------------
(* What a command line means, without parsing it.                          *)

Positions(shorts) == {i \in DOMAIN args : args[i].short \in shorts}

(* Sizes as integers: the bytes the text asks for, and whether 64 bits     *)
(* hold them.                                                              *)
ExactSize(text) == text.number * Multiplier(text.suffix)
IsExpressible(text) ==
  text.digit /\ text.suffix # "other" /\ ExactSize(text) <= MaxSize

ExactRule(option) ==
  CASE option.short = "D" -> DeletePath(option.arg)
    [] option.short = "F" -> DeleteFilename(option.arg)
    [] option.short = "S" -> DeleteLargeBlob(ExactSize(option.arg))

AtMostOneCommand == \A i, j \in Positions(CommandOptions) : i = j
Requests(shorts) == Positions(shorts) # {}

(* A command line bbfg may act on: every option known and well formed, one  *)
(* command at most, one repository; filters with --rewrite-ref and         *)
(* --rewrite-refs and only with them, blob protection lifted only where a  *)
(* history is rewritten.                                                   *)
Legal ==
  /\ Positions({"h", "?"}) = {}
  /\ \A i \in Positions({"S"}) : IsExpressible(args[i].arg)
  /\ AtMostOneCommand
  /\ rest = 1
  /\ Requests({"u", "U"}) <=> Requests(FilterOptions)
  /\ Requests({"N"}) => Requests({"H", "u", "U"})

TypeOK ==
  /\ args \in Seq(OptionRecords) /\ rest \in 0..2 /\ next \in 1..(Len(args) + 1)
  /\ command \in {"open-repo"} \cup {CommandOf[s] : s \in CommandOptions}
  /\ path \in Texts \cup {NULL} /\ ref_name \in Texts \cup {NULL}
  /\ rules \in Seq([kind : {"path"}, path : Texts] \cup [kind : {"filename"}, name : Texts]
                     \cup [kind : {"large"}, max : 0..MaxSize])
  /\ capacity \in Nat /\ Len(rules) <= capacity
  /\ protect \in BOOLEAN /\ flags \subseteq {"filter", "no-blob-protection"}
  /\ pc \in {"parse", "open", "filter", "command", "exit"}
  /\ outcome \in {"none", "help", "usage", "failed", "ran"}

(* Nothing of a repository is opened, let alone rewritten, for a command    *)
(* line that is not legal: the flags that stand for what was parsed let no *)
(* combination through.                                                    *)
OnlyLegalCommandsRun ==
  pc \in {"open", "filter", "command"} \/ outcome \in {"ran", "failed"} => Legal

(* And none that is legal is refused, unless memory for a rule ran out: no  *)
(* size that 64 bits hold is rejected, whatever its suffix.                *)
EveryLegalCommandRuns ==
  outcome = "usage" /\ Legal =>
    next \in Positions(FilterOptions) /\ Len(rules) = capacity

(* A command runs with exactly the rules its options ask for, sizes as     *)
(* written and never wrapped, and the path of a single-path command as a   *)
(* rule; with blobs unprotected only on request; and what rewrites always  *)
(* has a rule to rewrite by.                                               *)
RunsWhatWasAsked ==
  pc = "command" \/ outcome = "ran" =>
    /\ {rules[i] : i \in DOMAIN rules} =
         {ExactRule(args[i]) : i \in Positions(FilterOptions)} \cup
           {DeletePath(args[i].arg) : i \in Positions({"C", "W", "H"})}
    /\ protect <=> ~Requests({"N"})
    /\ Requests({"C", "W", "H", "u", "U"}) => Len(rules) > 0
    /\ \A i \in Positions(CommandOptions) :
         /\ command = CommandOf[args[i].short]
         /\ args[i].short = "u" => ref_name = args[i].arg
         /\ args[i].short = "d" => path = args[i].arg
=============================================================================

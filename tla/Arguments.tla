------------------------------- MODULE Arguments -------------------------------
(***************************************************************************)
(* What the CLI makes of a command line (cli/src/args.rs): normalize_one   *)
(* turns the Windows spelling into clap's, clap parses the values and       *)
(* enforces the groups, and into_command decides what the combination      *)
(* means.  A command line grows argument by argument, in every combination *)
(* up to MaxArguments, and is then interpreted; the order of arguments      *)
(* makes no difference to clap.                                            *)
(*                                                                         *)
(* A line maps each name to the set of values typed for it; a switch has   *)
(* the value On.  Byte quantities are scaled by the configuration and keep *)
(* the relations of the real ones.  A definition may follow a wrong form   *)
(* of itself, named for the mistake and used by no action.                 *)
(***************************************************************************)
EXTENDS Integers, FiniteSets

CONSTANTS
  SectorSize, MinDiskSize, MinFat32DiskSize, MaxDiskSize,   \* args.rs
  DriverMinimum, DriverMaximum,                             \* driver.h
  MaxWord,         \* the largest u64
  Kilo, Kibi,      \* 1000 and 1024
  Sizes,           \* the <<amount, suffix>> pairs that can be typed
  MaxArguments,    \* bound of the model: arguments on a line
  MaxValues        \* bound of the model: values typed for one name

\* The numbers typed for /id and /adapter: none, and one that can exist.
Identities == {0, 7}

\* What the instances of this module assume.
SizeAssumption ==
  /\ SectorSize \in Nat \ {0} /\ Kilo \in Nat /\ Kibi \in Nat /\ MaxWord \in Nat
  /\ {MinDiskSize, MinFat32DiskSize, MaxDiskSize, DriverMinimum, DriverMaximum} \subseteq Nat
  /\ DriverMinimum <= MinDiskSize /\ MinDiskSize <= MinFat32DiskSize
  /\ MinFat32DiskSize <= MaxDiskSize /\ MaxDiskSize <= DriverMaximum
  /\ DriverMaximum <= MaxWord /\ Identities \subseteq 0..MaxWord
  /\ Sizes \subseteq Nat \X STRING

On == "on"
Off == "off"
Switches == {"add", "del", "list", "json", "force", "hdd", "rem"}
Verbs == {"add", "del", "list"}
Options == Switches \cup {"letter", "size", "fs", "id", "adapter", "log"}

\* What can be typed for a name: good values, and values that FromStr refuses.
Values(name) ==
  CASE name \in Switches -> {On}
    [] name = "letter" -> {"R:", "r", "RS"}
    [] name = "size" -> Sizes
    [] name = "fs" -> {"fat32", "NTFS", "ext4"}
    [] name \in {"id", "adapter"} -> Identities
    [] name = "log" -> {"info", Off}
    [] name = "timings" -> {On}
    [] name = "path" -> {On}

VARIABLES
  line,            \* the arguments typed so far
  spelling,        \* "slash" or "long" once it is run, "none" before
  outcome          \* what the CLI makes of it

vars == <<line, spelling, outcome>>

Names == Options \cup {"timings", "path"}
Typing == [is |-> "typing"]

-----------------------------------------------------------------------------
(***************************************************************************)
(* normalize_one.  A name it does not know stays as it is, so that clap    *)
(* meets a positional argument it has no use for.                          *)
(***************************************************************************)
Canonical == Options

\* `/timings` is `--log=debug`, whatever else is on the line.
Timings(l) == [l EXCEPT !["log"] = @ \cup (IF l["timings"] # {} THEN {"debug"} ELSE {})]

\* The names that reach clap as options, and whether anything else does.
Normalized(s, l) ==
  IF s = "slash"
  THEN [options |-> [n \in Options |-> IF n \in Canonical THEN Timings(l)[n] ELSE {}],
        strange |-> \E n \in (Options \ Canonical) \cup {"path"} : l[n] # {}]
  ELSE [options |-> [n \in Options |-> l[n]],
        strange |-> \E n \in {"timings", "path"} : l[n] # {}]

-----------------------------------------------------------------------------
(***************************************************************************)
(* The values: DriveLetter, ByteSize and FileSystem from_str.              *)
(***************************************************************************)
DriveLetter(text) == IF text \in {"R:", "r"} THEN "R" ELSE "refused"

FileSystem(text) ==
  CASE text = "fat32" -> "FAT32" [] text = "NTFS" -> "NTFS" [] OTHER -> "refused"

Multiplier ==
  [B |-> 1, KB |-> Kilo, KIB |-> Kibi, MB |-> Kilo * Kilo, MIB |-> Kibi * Kibi,
   GB |-> Kilo * Kilo * Kilo, GIB |-> Kibi * Kibi * Kibi,
   TB |-> Kilo * Kilo * Kilo * Kilo, TIB |-> Kibi * Kibi * Kibi * Kibi]

WrappedSize(size) ==
  IF size[1] > MaxWord \/ size[2] \notin DOMAIN Multiplier THEN -1
  ELSE (size[1] * Multiplier[size[2]]) % (MaxWord + 1)
\* The amount is parsed as u64, and checked_mul refuses what does not fit; -1 is a refusal.
ByteSize(size) ==
  IF size[1] > MaxWord \/ size[2] \notin DOMAIN Multiplier THEN -1
  ELSE LET bytes == size[1] * Multiplier[size[2]]
       IN  IF bytes > MaxWord THEN -1 ELSE bytes

Parsed(o) ==
  [n \in Options |->
     CASE n = "letter" -> {DriveLetter(v) : v \in o[n]}
       [] n = "size" -> {ByteSize(v) : v \in o[n]}
       [] n = "fs" -> {FileSystem(v) : v \in o[n]}
       [] OTHER -> o[n]]

\* The groups and conflicts of Cli's attributes: clap exits with code 2 otherwise.
UsageOK(o, values) ==
  /\ \A n \in Options : \A v, w \in o[n] : v = w
  /\ "refused" \notin values["letter"] \cup values["fs"] /\ -1 \notin values["size"]
  /\ \E n \in Verbs : o[n] # {} /\ \A m \in Verbs \ {n} : o[m] = {}
  /\ o["hdd"] = {} \/ o["rem"] = {}
  /\ o["log"] = {} \/ o["json"] = {}

-----------------------------------------------------------------------------
(***************************************************************************)
(* into_command, whose order of tests decides which error is reported.     *)
(***************************************************************************)
Given(c, n) == c[n] # {}
The(set) == CHOOSE v \in set : TRUE
Refused(error) == [is |-> "invalid", error |-> error]

Listed(c) ==
  IF \E n \in {"letter", "size", "fs", "hdd", "rem", "id", "adapter"} : Given(c, n)
  THEN Refused("UnexpectedOptions")
  ELSE [is |-> "list", json |-> Given(c, "json")]

SizeError(size, fs) ==
  IF fs = "FAT32" /\ size < MinFat32DiskSize THEN "Fat32SizeTooSmall"
  ELSE IF size < MinDiskSize THEN "SizeTooSmall"
  ELSE IF size > MaxDiskSize THEN "SizeTooLarge"
  ELSE IF size % SectorSize # 0 THEN "UnalignedSize"
  ELSE "none"

Added(c) ==
  LET fs == IF Given(c, "fs") THEN The(c["fs"]) ELSE "NTFS"
      size == The(c["size"])
  IN  IF ~Given(c, "letter") THEN Refused("MissingLetter")
      ELSE IF ~Given(c, "hdd") /\ ~Given(c, "rem") THEN Refused("MissingMedia")
      ELSE IF ~Given(c, "size") THEN Refused("MissingSize")
      ELSE IF SizeError(size, fs) # "none" THEN Refused(SizeError(size, fs))
      ELSE [is |-> "add", letter |-> The(c["letter"]), size |-> size, fs |-> fs,
            media |-> IF Given(c, "hdd") THEN "Fixed" ELSE "Removable"]

DeleteIdentity(c) ==
  /\ Given(c, "id") /\ Given(c, "adapter") /\ ~Given(c, "letter")
  /\ The(c["id"]) # 0 /\ The(c["adapter"]) # 0

OnlyForAdd(c) ==
  IF Given(c, "hdd") \/ Given(c, "rem") THEN "MediaOnDelete"
  ELSE IF Given(c, "size") THEN "SizeOnDelete"
  ELSE IF Given(c, "fs") THEN "FileSystemOnDelete"
  ELSE "none"

Deleted(c) ==
  IF OnlyForAdd(c) # "none" THEN Refused(OnlyForAdd(c))
  ELSE IF Given(c, "letter") /\ ~Given(c, "id") /\ ~Given(c, "adapter")
    THEN [is |-> "delete", letter |-> The(c["letter"]), force |-> Given(c, "force")]
  ELSE IF DeleteIdentity(c)
    THEN [is |-> "deleteId", adapter |-> The(c["adapter"]), id |-> The(c["id"]),
          force |-> Given(c, "force")]
  ELSE IF ~Given(c, "letter") /\ ~Given(c, "id") /\ ~Given(c, "adapter")
    THEN Refused("MissingLetter")
  ELSE Refused("DeleteIdentity")

IntoCommand(c) ==
  IF Given(c, "force") /\ ~Given(c, "del") THEN Refused("ForceWithoutDelete")
  ELSE IF Given(c, "list") THEN Listed(c)
  ELSE IF Given(c, "json") \/ (Given(c, "add") /\ (Given(c, "id") \/ Given(c, "adapter")))
    THEN Refused("UnexpectedOptions")
  ELSE IF Given(c, "add") THEN Added(c)
  ELSE Deleted(c)

\* main: the level, unless none was asked for or it is off.
LogLevel(c) == IF c["log"] \ {Off} = {} THEN Off ELSE The(c["log"])

Interpretation(s, l) ==
  LET normalized == Normalized(s, l)
      values == Parsed(normalized.options)
  IN  IF normalized.strange \/ ~UsageOK(normalized.options, values)
      THEN [is |-> "usage"]
      ELSE [is |-> "parsed", command |-> IntoCommand(values), log |-> LogLevel(values)]

-----------------------------------------------------------------------------
(***************************************************************************)
(* Typing a line and running it.                                           *)
(***************************************************************************)
Count(l) == Cardinality(UNION {{<<n, v>> : v \in l[n]} : n \in Names})

Init ==
  /\ line = [n \in Names |-> {}] /\ spelling = "none" /\ outcome = Typing

Type(n, v) ==
  /\ outcome = Typing /\ Count(line) < MaxArguments
  /\ Cardinality(line[n]) < MaxValues /\ v \notin line[n]
  /\ line' = [line EXCEPT ![n] = @ \cup {v}]
  /\ UNCHANGED <<spelling, outcome>>

Run(s) ==
  /\ outcome = Typing
  /\ spelling' = s /\ outcome' = Interpretation(s, line)
  /\ UNCHANGED line

Next ==
  \/ \E n \in Names : \E v \in Values(n) : Type(n, v)
  \/ \E s \in {"slash", "long"} : Run(s)

Spec == Init /\ [][Next]_vars

-----------------------------------------------------------------------------
(***************************************************************************)
(* Properties.                                                             *)
(***************************************************************************)
Commands ==
  [is : {"list"}, json : BOOLEAN]
    \cup [is : {"delete"}, letter : {"R"}, force : BOOLEAN]
    \cup [is : {"deleteId"}, adapter : 1..MaxWord, id : 1..MaxWord, force : BOOLEAN]
    \cup [is : {"add"}, letter : {"R"}, size : MinDiskSize..MaxDiskSize,
          fs : {"FAT32", "NTFS"}, media : {"Fixed", "Removable"}]
Errors ==
  {"UnexpectedOptions", "ForceWithoutDelete", "DeleteIdentity", "MissingLetter",
   "MissingMedia", "MissingSize", "MediaOnDelete", "SizeOnDelete", "FileSystemOnDelete",
   "SizeTooSmall", "Fat32SizeTooSmall", "SizeTooLarge", "UnalignedSize"}

\* The state is well formed; a deletion by identity names a device and an adapter that
\* can exist, since both number from 1.
TypeOK ==
  /\ \A n \in Names : line[n] \subseteq Values(n)
  /\ spelling \in {"slash", "long", "none"}
  /\ \/ outcome \in {Typing, [is |-> "usage"]}
     \/ /\ outcome.is = "parsed" /\ outcome.log \in {Off, "info", "debug"}
        /\ \/ outcome.command \in Commands
           \/ outcome.command \in [is : {"invalid"}, error : Errors]

Accepted == outcome.is = "parsed" /\ outcome.command.is # "invalid"

\* The size, sector alignment and letter of every disk the CLI goes on to create pass the
\* driver's own ValidateCreateRequest, so that an argument error is found before the
\* driver is installed and an operation is reserved for it.
AcceptedByDriver ==
  Accepted /\ outcome.command.is = "add" =>
    /\ outcome.command.size \in DriverMinimum..DriverMaximum
    /\ outcome.command.size % SectorSize = 0
    /\ outcome.command.letter = "R"

\* The names a command uses, other than those of logging.
Used(command) ==
  CASE command.is = "list" -> {"list"} \cup (IF command.json THEN {"json"} ELSE {})
    [] command.is = "delete" ->
         {"del", "letter"} \cup (IF command.force THEN {"force"} ELSE {})
    [] command.is = "deleteId" ->
         {"del", "id", "adapter"} \cup (IF command.force THEN {"force"} ELSE {})
    [] command.is = "add" ->
         {"add", "letter", "size", IF command.media = "Fixed" THEN "hdd" ELSE "rem"}

\* No argument is dropped on the way: the command into_command returns uses every option
\* of the line and no other (the file system alone has a default), and the size of a new
\* disk is the product that was typed, not what is left of it in a word.
MeansWhatWasTyped ==
  Accepted =>
    /\ {n \in Options \ {"log"} : line[n] # {}} \ {"fs"} = Used(outcome.command)
    /\ line["fs"] # {} => outcome.command.is = "add"
    /\ outcome.command.is = "add" =>
         \A size \in line["size"] : outcome.command.size = size[1] * Multiplier[size[2]]

\* The slash spelling and the GNU spelling of one line mean the same, so no option is
\* missing from normalize_one's table; `/timings` exists in the slash spelling only.
SpellingIrrelevant ==
  outcome # Typing /\ line["timings"] = {} =>
    outcome = Interpretation(IF spelling = "slash" THEN "long" ELSE "slash", line)

\* Logging goes to stdout, so it is off while the inventory is printed there as JSON,
\* by whichever name it was asked for.
JsonIsPure ==
  Accepted /\ outcome.command.is = "list" /\ outcome.command.json =>
    outcome.log = Off /\ line["log"] = {} /\ line["timings"] = {}

\* into_command accepts what the driver accepts and what was typed, in either spelling.
LineIsUnderstood ==
  TypeOK /\ AcceptedByDriver /\ MeansWhatWasTyped /\ SpellingIrrelevant /\ JsonIsPure

=============================================================================

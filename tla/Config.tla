------------------------------- MODULE Config -------------------------------
(***************************************************************************)
(* The device configuration of dutagent, pkg/dut, as operators: how a YAML *)
(* document becomes a device list or an error that says where the fault    *)
(* is, what a lookup in the list returns, and which arguments each module  *)
(* of a command is run with.                                               *)
(*                                                                         *)
(* Data.  An argument is a sequence of tokens, a literal or a `${name}`    *)
(* reference: all that the template regular expression tells apart.  A     *)
(* document is what yaml.v3 hands to the code: `null`, or the entries of a *)
(* mapping in the order of the file.  The cmds of a device are null, a     *)
(* mapping, or an alias of a mapping written elsewhere (decodeCmds sees    *)
(* the alias itself, all other nodes are resolved before they are seen).   *)
(* A module carries the fault its own decoding reports, "" for none.       *)
(* Nodes of another kind than the one expected (a text where a mapping     *)
(* belongs) are left out: the load refuses them.                           *)
(***************************************************************************)
EXTENDS Naturals, Sequences, SequencesExt

Token == [kind : {"lit", "ref"}, text : STRING]
Lit(t) == [kind |-> "lit", text |-> t]
Ref(n) == [kind |-> "ref", text |-> n]

(* The value of a key that has none: yaml.v3 skips UnmarshalYAML for it.    *)
NullCommand == [null |-> TRUE, args |-> <<>>, uses |-> <<>>]
Command(args, uses) == [null |-> FALSE, args |-> args, uses |-> uses]

(* The nodes of a document.                                                 *)
ModuleNode == [passthrough : BOOLEAN, args : Seq(Seq(Token)), fault : STRING]
CommandNode == {c \in [null : BOOLEAN, args : Seq(STRING), uses : Seq(ModuleNode)] : c.null => c = NullCommand}
CmdsNode == {n \in [shape : {"null", "mapping", "alias"}, entries : Seq([name : STRING, value : CommandNode])] :
               n.shape = "null" => n.entries = <<>>}
DeviceNode == {n \in [null : BOOLEAN, cmds : CmdsNode] : n.null => n.cmds.shape = "null"}
DocNode == {n \in [null : BOOLEAN, entries : Seq([name : STRING, value : DeviceNode])] : n.null => n.entries = <<>>}

(* A device list, or the ConfigError the load returned.                     *)
Loaded(devs) == [ok |-> TRUE, devs |-> devs,
                 device |-> "", command |-> "", err |-> ""]
ConfigError(d, c, e) == [ok |-> FALSE, devs |-> <<>>,
                         device |-> d, command |-> c, err |-> e]

-----------------------------------------------------------------------------
(* The keywords of the command line.                                        *)

(* Mutant: a device may be called "version".                                *)
reservesOnlyList(name) == name = "list"

IsReservedDeviceName(name) == name \in {"list", "version"}

IsReservedCommandName(name) == name \in {"lock", "unlock", "help"}

-----------------------------------------------------------------------------
(* Loading.                                                                 *)

countPassthrough(cmd) == Cardinality({i \in DOMAIN cmd.uses : cmd.uses[i].passthrough})

HasPassthrough(cmd) == countPassthrough(cmd) > 0

extractTemplateReferences(arg) ==
  {arg[i].text : i \in {j \in DOMAIN arg : arg[j].kind = "ref"}}

validateTemplateReferences(cmd) ==
  \A m \in Range(cmd.uses) : ~m.passthrough =>
    \A arg \in Range(m.args) :
      extractTemplateReferences(arg) \subseteq Range(cmd.args)

(* What decoding the value of one command reports: a fault of its modules   *)
(* first (they are decoded first), then the checks of Command in turn.  Of   *)
(* several faulty modules the first is taken; yaml.v3 collects faults of     *)
(* type and goes on, so the text of the error may be that of a later one.    *)
commandError(cmd) ==
  LET faulty == SelectInSeq(cmd.uses, LAMBDA m : m.fault # "") IN
  IF cmd.null THEN ""
  ELSE IF faulty # 0 THEN cmd.uses[faulty].fault
  ELSE IF cmd.uses = <<>> THEN "no modules"
  ELSE IF countPassthrough(cmd) > 1 THEN "multiple passthrough"
  ELSE IF HasPassthrough(cmd) /\ cmd.args # <<>> THEN "passthrough with args"
  ELSE IF \E m \in Range(cmd.uses) : m.passthrough /\ m.args # <<>>
       THEN "passthrough module with args"
  ELSE IF ~validateTemplateReferences(cmd) THEN "undefined reference"
  ELSE ""

(* Mutant: the last fault of the document is reported.                      *)
LastFault(errors) == SelectLastInSeq(errors, LAMBDA e : e # "")

(* The first entry, in the order of the file, that has an error; 0 if none. *)
FirstFault(errors) == SelectInSeq(errors, LAMBDA e : e # "")

(* A mapping decoded entry by entry: a repeated key keeps its last value.   *)
LastWins(entries) ==
  [n \in {e.name : e \in Range(entries)} |->
     entries[SelectLastInSeq(entries, LAMBDA e : e.name = n)].value]

(* The error of decodeCmds, with the command it names.  An alias goes to    *)
(* the default decoder: no name is looked at, none is put in the error, and *)
(* a repeated key is an error.                                              *)
decodeCmds(cmds) ==
  LET values == [k \in DOMAIN cmds.entries |-> commandError(cmds.entries[k].value)]
      errors == [k \in DOMAIN cmds.entries |->
                   IF IsReservedCommandName(cmds.entries[k].name) THEN "reserved"
                   ELSE values[k]]
      bad == FirstFault(errors)
      odd == FirstFault(values)
      repeats == \E j, k \in DOMAIN cmds.entries : j < k /\ cmds.entries[j].name = cmds.entries[k].name
      None == [command |-> "", err |-> ""]
  IN  CASE cmds.shape = "null" -> None
        [] cmds.shape = "mapping" /\ cmds.entries = <<>> ->
             [None EXCEPT !.err = "no commands"]
        [] cmds.shape = "mapping" /\ bad # 0 ->
             [command |-> cmds.entries[bad].name,
              err |-> errors[bad]]
        [] cmds.shape = "alias" /\ repeats ->
             [None EXCEPT !.err = "malformed"]
        [] cmds.shape = "alias" /\ ~repeats /\ odd # 0 ->
             [None EXCEPT !.err = values[odd]]
        [] OTHER -> None

(* Device.UnmarshalYAML, and the same question asked again by Devlist for a *)
(* null device, whose UnmarshalYAML never ran.                              *)
deviceError(dev) ==
  LET e == decodeCmds(dev.cmds) IN
  IF dev.null \/ (e.err = "" /\ dev.cmds.entries = <<>>)
    THEN [command |-> "", err |-> "no commands"] ELSE e

(* Devlist.UnmarshalYAML: the first device at fault ends the load.          *)
UnmarshalYAML(doc) ==
  LET errors == [k \in DOMAIN doc.entries |->
                   IF IsReservedDeviceName(doc.entries[k].name) THEN "reserved"
                   ELSE deviceError(doc.entries[k].value).err]
      bad == FirstFault(errors)
  IN  CASE doc.null -> Loaded(<<>>)
        [] ~doc.null /\ doc.entries = <<>> -> ConfigError("", "", "empty devices")
        [] ~doc.null /\ bad # 0 ->
             LET e == doc.entries[bad] IN
             ConfigError(e.name,
                         IF IsReservedDeviceName(e.name) THEN ""
                         ELSE deviceError(e.value).command,
                         errors[bad])
        [] OTHER ->
             LET decoded == LastWins(doc.entries) IN
             Loaded([n \in DOMAIN decoded |->
                       LastWins(decoded[n].cmds.entries)])

-----------------------------------------------------------------------------
(* Looking up.  devs maps a device to its commands.                         *)

CmdNames(devs, d) == DOMAIN devs[d]

Find(devs, d) == d \in DOMAIN devs

FindCmd(devs, d, c) ==
  CASE d \notin DOMAIN devs -> "no such device"
    [] d \in DOMAIN devs /\ c \notin DOMAIN devs[d] -> "no such command"
    [] Find(devs, d) /\ c \in DOMAIN devs[d] ->
         LET cmd == devs[d][c] IN
         CASE cmd.uses = <<>> -> "no modules"
           [] countPassthrough(cmd) > 1 -> "multiple passthrough"
           [] OTHER -> ""

-----------------------------------------------------------------------------
(* The arguments a command's modules are run with.                          *)

(* Mutant: a substituted value is looked at again for references.           *)
SubstituteTwice(arg, argMap) ==
  LET once(a) == FlattenSeq([i \in DOMAIN a |->
                   IF a[i].kind = "ref" /\ a[i].text \in DOMAIN argMap
                   THEN argMap[a[i].text] ELSE <<a[i]>>])
  IN  once(once(arg))

(* One argument with its declared references replaced, in one pass.         *)
Substitute(arg, argMap) ==
  FlattenSeq([i \in DOMAIN arg |->
    IF arg[i].kind = "ref" /\ arg[i].text \in DOMAIN argMap
    THEN argMap[arg[i].text] ELSE <<arg[i]>>])

(* Name to runtime value by position, the last of a repeated name.          *)
ArgMap(cmd, runtimeArgs) ==
  [n \in Range(cmd.args) |->
     runtimeArgs[SelectLastInSeq(cmd.args, LAMBDA a : a = n)]]

SubstituteArgs(cmd, args, runtimeArgs) ==
  IF cmd.args = <<>> THEN args
  ELSE LET argMap == ArgMap(cmd, runtimeArgs)
       IN  [i \in DOMAIN args |-> Substitute(args[i], argMap)]

(* ModuleArgs fails when nothing receives the arguments, or, as soon as one *)
(* module has its arguments substituted, when their number is wrong.        *)
ModuleArgsError(cmd, runtimeArgs) ==
  CASE runtimeArgs # <<>> /\ ~HasPassthrough(cmd) /\ cmd.args = <<>>
         -> "no receiver"
    [] cmd.args # <<>> /\ Len(runtimeArgs) # Len(cmd.args)
         /\ \E m \in Range(cmd.uses) : ~m.passthrough -> "wrong number"
    [] OTHER -> ""

ModuleArgs(cmd, runtimeArgs) ==
  [i \in DOMAIN cmd.uses |->
     IF cmd.uses[i].passthrough THEN runtimeArgs
     ELSE SubstituteArgs(cmd, cmd.uses[i].args, runtimeArgs)]

(* The help of a command is its passthrough module's own, or an overview of *)
(* all its modules and its declared arguments.                              *)
HelpText(cmd) ==
  LET m == SelectInSeq(cmd.uses, LAMBDA x : x.passthrough)
  IN  IF m # 0 THEN [of |-> "module", modules |-> 1, args |-> 0]
      ELSE [of |-> "command", modules |-> Len(cmd.uses), args |-> Len(cmd.args)]
=============================================================================

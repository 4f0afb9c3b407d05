---------------------------- MODULE RuntimeConfig ----------------------------
(***************************************************************************)
(* The configuration of a process: main of crates/vakil-cli/src/main.rs    *)
(* and RuntimeConfig::from_env of crates/vakil-runtime/src/lib.rs. The     *)
(* values of the environment, and over them those of the file --config or  *)
(* VAKIL_CONFIG names, which is read line by line and refused as a whole   *)
(* at the first line that is not as it should be.                          *)
(***************************************************************************)
EXTENDS Naturals, SequencesExt, Listing

CONSTANTS
  Environments, \* environments: listen addresses and raw plugin paths
  ConfigFiles,  \* files --config may name: sequences of lines
  EnvFiles,     \* files VAKIL_CONFIG may name
  Addresses,    \* strings that parse as socket addresses
  Blank,        \* an entry of a path list with nothing but white space
  None,         \* absent option; a file that cannot be read
  Unset         \* no --config, no VAKIL_CONFIG

\* A line, trimmed and split at its first "=": its key and its value, or a kind.
\* The value of plugin_paths is split at ";": no text at all is one Blank.
LineKinds == {"comment", "no_equals", "unquoted", "unknown_key",
              "http_listen_addr", "plugin_paths"}

IsList(v) == Len(v) \in Nat /\ DOMAIN v = 1..Len(v)

RuntimeConfigAssumption ==
  /\ None \notin Addresses \cup {<<>>}
  /\ \A e \in Environments :
       /\ DOMAIN e = {"http_listen_addr", "tcp_listen_addr", "udp_listen_addr",
                      "plugin_paths"}
       /\ IsList(e.plugin_paths)
  /\ \A f \in (ConfigFiles \cup EnvFiles) \ {None, Unset} :
       /\ IsList(f)
       /\ \A i \in DOMAIN f :
            /\ f[i].kind \in LineKinds /\ f[i].value # None
            /\ f[i].kind = "plugin_paths" => IsList(f[i].value)
ASSUME RuntimeConfigAssumption

VARIABLES
  env,          \* the environment
  config_arg,   \* Cli.config: the file --config names
  file,         \* the file VAKIL_CONFIG names; no lines if there is none
  line,         \* lines read so far
  overrides,    \* RuntimeOverrides
  outcome,      \* from_env: not called, running, or what it returned
  config        \* the RuntimeConfig it returned

vars == <<env, config_arg, file, line, overrides, outcome, config>>

Init ==
  /\ env \in Environments
  /\ config_arg \in ConfigFiles \cup {Unset} /\ file \in EnvFiles
  /\ line = 0
  /\ overrides = [http_listen_addr |-> None, plugin_paths |-> None]
  /\ outcome = "starting" /\ config = None

\* main: set_var("VAKIL_CONFIG"), then from_env; an error of it, or later of
\* Runtime::build, is the end of the process.
Main ==
  /\ outcome = "starting" /\ outcome' = "running"
  /\ file' = IF config_arg # Unset THEN config_arg
             ELSE IF file # Unset THEN file ELSE <<>>
  /\ UNCHANGED <<env, config_arg, line, overrides, config>>

-----------------------------------------------------------------------------
(* Lists of plugin paths *)

\* filter keeps the entries that are not empty, in their order.
ParsePluginPaths(entries) ==
  LET kept == {i \in DOMAIN entries : entries[i] # Blank}
      places == Listing(kept, [i \in kept |-> {j \in kept : j < i}])
  IN  [k \in DOMAIN places |-> entries[places[k]]]

ParsePluginPathsStrict(entries) == IF entries = <<Blank>> THEN <<>> ELSE entries
StrictError(entries) == entries # <<Blank>> /\ Blank \in ToSet(entries)

-----------------------------------------------------------------------------
(* parse_config_file *)

ReadFails == /\ outcome = "running" /\ file = None
             /\ outcome' = "error"
             /\ UNCHANGED <<env, config_arg, file, line, overrides, config>>

Reading(kinds) == /\ outcome = "running" /\ file # None /\ line < Len(file)
                  /\ file[line + 1].kind \in kinds
                  /\ line' = line + 1
                  /\ UNCHANGED <<env, config_arg, file, config>>

Value == file[line + 1].value

CommentLine == /\ Reading({"comment"})
               /\ UNCHANGED <<overrides, outcome>>

MalformedLine == /\ Reading({"no_equals", "unquoted", "unknown_key"})
                 /\ outcome' = "error"
                 /\ UNCHANGED overrides

\* Mutant: a key that was set to an empty list may come again.
AlreadyFilled(key) == overrides[key] \notin {None, <<>>}

AlreadySet(key) == overrides[key] # None

\* A key sets its override unless the value is no good or was set before.
SetKey(key, bad, value) ==
  IF AlreadySet(key) \/ bad
    THEN outcome' = "error" /\ UNCHANGED overrides
    ELSE /\ overrides' = [overrides EXCEPT ![key] = value]
         /\ UNCHANGED outcome

HttpListenAddrLine ==
  /\ Reading({"http_listen_addr"})
  /\ SetKey("http_listen_addr", Value \notin Addresses, Value)

PluginPathsLine ==
  /\ Reading({"plugin_paths"})
  /\ SetKey("plugin_paths", StrictError(Value), ParsePluginPathsStrict(Value))

-----------------------------------------------------------------------------
(* from_env *)

\* Mutant: an empty list does not override.
OverNonEmpty(override, value) ==
  IF override \in {None, <<>>} THEN value ELSE override

Over(override, value) == IF override = None THEN value ELSE override

FromEnv ==
  /\ outcome = "running" /\ file # None /\ line = Len(file)
  /\ outcome' = "ok"
  /\ config' =
       [env EXCEPT
          !.http_listen_addr = Over(overrides.http_listen_addr, @),
          !.plugin_paths = Over(overrides.plugin_paths, ParsePluginPaths(@))]
  /\ UNCHANGED <<env, config_arg, file, line, overrides>>

Next == \/ Main \/ ReadFails \/ CommentLine \/ MalformedLine \/ HttpListenAddrLine
        \/ PluginPathsLine \/ FromEnv

Spec == Init /\ [][Next]_vars

-----------------------------------------------------------------------------
(* Properties, over the file as a whole *)

LinesOf(key) == {i \in DOMAIN file : file[i].kind = key}

GoodValue(l) ==
  IF l.kind = "http_listen_addr" THEN l.value \in Addresses
  ELSE l.value = <<Blank>> \/ \A i \in DOMAIN l.value : l.value[i] # Blank

GoodFile ==
  /\ file # None
  /\ \A i \in DOMAIN file :
       \/ file[i].kind = "comment"
       \/ /\ file[i].kind \in {"http_listen_addr", "plugin_paths"}
          /\ GoodValue(file[i])
  /\ \A key \in {"http_listen_addr", "plugin_paths"} :
       \A i, j \in LinesOf(key) : i = j

\* What the process does with a file does not depend on the order of its lines: it
\* starts only with one in which every line is good and no key comes twice, even
\* with an empty value, and it refuses every other.
AcceptsGoodFiles ==
  /\ outcome = "ok" => GoodFile
  /\ outcome = "error" => ~GoodFile

\* The paths are the entries of the list that are not blank, in their order.
WithoutBlanks(paths, list) ==
  \E from \in [DOMAIN paths -> DOMAIN list] :
    /\ \A i, j \in DOMAIN paths : i < j => from[i] < from[j]
    /\ \A i \in DOMAIN paths : paths[i] = list[from[i]]
    /\ {from[i] : i \in DOMAIN paths} = {i \in DOMAIN list : list[i] # Blank}

\* The values that may be in force for a key: the file's, or the environment's
Values(key) == {file[i].value : i \in LinesOf(key)}
Candidates(key) == IF Values(key) = {} THEN {env[key]} ELSE Values(key)

\* The file of the command line wins over that of the environment, and a key it
\* sets over the environment's values, an empty list of plugins too; what it does
\* not set is the environment's. Paths keep their order, which decides the plugins'
\* order in the chains, and none of them is empty.
FileWins ==
  outcome = "ok" =>
    /\ config_arg \in {file, Unset}
    /\ config.tcp_listen_addr = env.tcp_listen_addr
    /\ config.udp_listen_addr = env.udp_listen_addr
    /\ config.http_listen_addr \in Candidates("http_listen_addr")
    /\ \E list \in Candidates("plugin_paths") :
         WithoutBlanks(config.plugin_paths, list)
=============================================================================

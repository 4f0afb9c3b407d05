------------------------- MODULE RuntimeConfigProofs -------------------------
(***************************************************************************)
(* Proofs about the configuration of a process, for any files and any      *)
(* number of lines. The parser decides about a file as a whole although it *)
(* reads it line by line and keeps only the overrides: while it reads, the *)
(* lines behind it are good, and an override is there exactly if one of    *)
(* them has its key. An override is the value of a line that was read, so  *)
(* from_env puts the file over the environment.                            *)
(***************************************************************************)
EXTENDS RuntimeConfig, ListingProofs, TLAPS

SettingKeys == {"http_listen_addr", "plugin_paths"}

GoodLine(l) == \/ l.kind = "comment"
               \/ l.kind \in SettingKeys /\ GoodValue(l)

\* A file that was opened is a sequence of lines.
Opened ==
  file # None /\ outcome # "starting" =>
    /\ Len(file) \in Nat /\ DOMAIN file = 1..Len(file)
    /\ \A i \in DOMAIN file : file[i].kind \in LineKinds /\ file[i].value # None

\* The lines read so far are good, no key came twice, and the overrides know which
\* ones came.
ReadInv ==
  file # None /\ outcome # "starting" /\ outcome # "error" =>
    /\ line \in 0..Len(file)
    /\ \A i \in 1..line : GoodLine(file[i])
    /\ \A key \in SettingKeys :
         /\ overrides[key] # None <=> \E i \in 1..line : file[i].kind = key
         /\ \A i, j \in 1..line : file[i].kind = key /\ file[j].kind = key => i = j

ParserInv ==
  /\ config_arg \in ConfigFiles \cup {Unset}
  /\ DOMAIN overrides = SettingKeys
  /\ outcome = "starting" =>
       /\ line = 0 /\ file \in EnvFiles
       /\ \A key \in SettingKeys : overrides[key] = None
  /\ Opened /\ ReadInv /\ AcceptsGoodFiles

\* A good file is one whose lines are good and whose keys are different.
LEMMA GoodFileLines ==
  GoodFile <=> /\ file # None
               /\ \A i \in DOMAIN file : GoodLine(file[i])
               /\ \A key \in SettingKeys : \A i, j \in DOMAIN file :
                    file[i].kind = key /\ file[j].kind = key => i = j
  BY DEF GoodFile, GoodLine, LinesOf, SettingKeys

\* A key's line is refused exactly if its value is bad or its key came before.
LEMMA KeyStep ==
  ASSUME ParserInv, NEW key \in SettingKeys, Reading({key}), NEW bad, NEW value,
         bad <=> ~GoodValue(file[line + 1]), value # None,
         SetKey(key, bad, value)
  PROVE  Opened' /\ ReadInv' /\ AcceptsGoodFiles' /\ DOMAIN overrides' = SettingKeys
<1> USE DEF ParserInv
<1>1. /\ outcome = "running" /\ file # None /\ line < Len(file)
      /\ file[line + 1].kind = key /\ line' = line + 1 /\ UNCHANGED file
  BY DEF Reading
<1>2. /\ Len(file) \in Nat /\ DOMAIN file = 1..Len(file) /\ line \in 0..Len(file)
      /\ line + 1 \in DOMAIN file
  BY <1>1 DEF Opened, ReadInv
<1>3. CASE AlreadySet(key) \/ bad
  <2>1. ~GoodFile
    <3>1. CASE bad
      <4>1. key # "comment"
        BY DEF SettingKeys
      <4> QED
        BY <1>1, <1>2, <3>1, <4>1, GoodFileLines DEF GoodLine
    <3>2. CASE AlreadySet(key)
      <4>1. PICK i \in 1..line : file[i].kind = key
        BY <1>1, <3>2 DEF AlreadySet, ReadInv
      <4>2. i \in DOMAIN file /\ i # line + 1
        BY <1>2
      <4> QED
        BY <1>1, <1>2, <4>1, <4>2, GoodFileLines
    <3> QED
      BY <1>3, <3>1, <3>2
  <2>2. outcome' = "error" /\ UNCHANGED overrides
    BY <1>3 DEF SetKey
  <2>3. ~GoodFile'
    BY <1>1, <2>1 DEF GoodFile, LinesOf
  <2> QED
    BY <1>1, <2>2, <2>3 DEF Opened, ReadInv, AcceptsGoodFiles
<1>4. CASE ~AlreadySet(key) /\ ~bad
  <2>1. /\ overrides' = [overrides EXCEPT ![key] = value]
        /\ outcome' = "running"
    BY <1>1, <1>4 DEF SetKey
  <2>2. GoodLine(file[line + 1])
    BY <1>1, <1>4 DEF GoodLine
  <2>3. \A i \in 1..line : file[i].kind # key
    BY <1>1, <1>4 DEF AlreadySet, ReadInv
  <2>4. 1..(line + 1) = 1..line \cup {line + 1}
    BY <1>2
  <2>5. ReadInv'
    <3>1. line' \in 0..Len(file)
      BY <1>1, <1>2
    <3>2. \A i \in 1..line' : GoodLine(file[i])
      BY <1>1, <2>2, <2>4 DEF ReadInv
    <3>3. \A k \in SettingKeys :
            overrides'[k] # None <=> \E i \in 1..line' : file[i].kind = k
      BY <1>1, <2>1, <2>4 DEF ReadInv
    <3>4. \A k \in SettingKeys : \A i, j \in 1..line' :
            file[i].kind = k /\ file[j].kind = k => i = j
      BY <1>1, <2>3, <2>4 DEF ReadInv
    <3> QED
      BY <1>1, <3>1, <3>2, <3>3, <3>4 DEF ReadInv
  <2> QED
    BY <1>1, <2>1, <2>5 DEF Opened, AcceptsGoodFiles
<1> QED
  BY <1>3, <1>4

\* A line without a key of its own ends the parser or is none of its business.
LEMMA OtherLines ==
  ASSUME ParserInv, CommentLine \/ MalformedLine
  PROVE  ReadInv' /\ AcceptsGoodFiles'
<1>1. /\ outcome = "running" /\ file # None /\ line < Len(file)
      /\ line' = line + 1 /\ UNCHANGED <<file, overrides>>
  BY DEF CommentLine, MalformedLine, Reading
<1>2. /\ Len(file) \in Nat /\ DOMAIN file = 1..Len(file) /\ line \in 0..Len(file)
      /\ line + 1 \in DOMAIN file /\ 1..(line + 1) = 1..line \cup {line + 1}
  BY <1>1 DEF ParserInv, Opened, ReadInv
<1>3. CASE CommentLine
  <2>1. file[line + 1].kind = "comment" /\ UNCHANGED outcome
    BY <1>3 DEF CommentLine, Reading
  <2>2. file[line + 1].kind \notin SettingKeys /\ GoodLine(file[line + 1])
    BY <2>1 DEF SettingKeys, GoodLine
  <2>3. line' \in 0..Len(file)
    BY <1>1, <1>2
  <2> QED
    BY <1>1, <1>2, <2>1, <2>2, <2>3 DEF ParserInv, ReadInv, AcceptsGoodFiles
<1>4. CASE MalformedLine
  <2>1. /\ file[line + 1].kind \in {"no_equals", "unquoted", "unknown_key"}
        /\ outcome' = "error"
    BY <1>4 DEF MalformedLine, Reading
  <2>2. ~GoodLine(file[line + 1])
    BY <2>1 DEF GoodLine, SettingKeys
  <2>3. ~GoodFile'
    BY <1>1, <1>2, <2>2, GoodFileLines DEF GoodFile, LinesOf
  <2> QED
    BY <2>1, <2>3 DEF ReadInv, AcceptsGoodFiles
<1> QED
  BY <1>3, <1>4

\* Each step keeps what is known of the lines read.
LEMMA ParserStep ==
  ASSUME ParserInv, [Next]_vars
  PROVE  ParserInv'
<1>1. CASE Main
  <2>1. /\ outcome = "starting" /\ outcome' = "running" /\ line' = 0
        /\ UNCHANGED <<config_arg, overrides>>
        /\ file' \in ((ConfigFiles \cup EnvFiles) \ {Unset}) \cup {<<>>}
    BY <1>1 DEF Main, ParserInv
  <2>2. file' # None =>
          /\ Len(file') \in Nat /\ DOMAIN file' = 1..Len(file')
          /\ \A i \in DOMAIN file' : /\ file'[i].kind \in LineKinds
                                     /\ file'[i].value # None
    BY <2>1, RuntimeConfigAssumption DEF RuntimeConfigAssumption
  <2>3. 1..0 = {}
    OBVIOUS
  <2> QED
    BY <2>1, <2>2, <2>3 DEF ParserInv, Opened, ReadInv, AcceptsGoodFiles
<1>2. CASE ReadFails
  <2>1. outcome' = "error" /\ file' = None /\ UNCHANGED <<config_arg, overrides>>
    BY <1>2 DEF ReadFails
  <2> QED
    BY <2>1 DEF ParserInv, Opened, ReadInv, AcceptsGoodFiles, GoodFile
<1>3. CASE CommentLine \/ MalformedLine
  <2>1. /\ outcome # "starting" /\ outcome' # "starting"
        /\ UNCHANGED <<file, config_arg, overrides>>
    BY <1>3 DEF CommentLine, MalformedLine, Reading
  <2> QED
    BY <1>3, <2>1, OtherLines DEF ParserInv, Opened
<1>4. CASE HttpListenAddrLine
  <2> DEFINE key == "http_listen_addr"
  <2>1. /\ Reading({key}) /\ SetKey(key, Value \notin Addresses, Value)
        /\ key \in SettingKeys
    BY <1>4 DEF HttpListenAddrLine, SettingKeys
  <2>2. /\ outcome = "running" /\ outcome' \in {"running", "error"}
        /\ file[line + 1].kind = key /\ UNCHANGED config_arg
    BY <2>1 DEF Reading, SetKey
  <2>3. Value \notin Addresses <=> ~GoodValue(file[line + 1])
    BY <2>2 DEF GoodValue, Value
  <2>4. Value # None
    BY <2>1 DEF ParserInv, Opened, ReadInv, Reading, Value
  <2> QED
    BY <2>1, <2>2, <2>3, <2>4, KeyStep DEF ParserInv
<1>5. CASE PluginPathsLine
  <2> DEFINE key == "plugin_paths"
  <2>1. /\ Reading({key}) /\ key \in SettingKeys
        /\ SetKey(key, StrictError(Value), ParsePluginPathsStrict(Value))
    BY <1>5 DEF PluginPathsLine, SettingKeys
  <2>2. /\ outcome = "running" /\ outcome' \in {"running", "error"}
        /\ file[line + 1].kind = key /\ UNCHANGED config_arg
    BY <2>1 DEF Reading, SetKey
  <2>3. StrictError(Value) <=> ~GoodValue(file[line + 1])
    BY <2>2 DEF GoodValue, Value, StrictError, ToSet
  <2>4. Value # None /\ ParsePluginPathsStrict(Value) # None
    BY <2>1, RuntimeConfigAssumption
       DEF RuntimeConfigAssumption, ParserInv, Opened, ReadInv, Reading, Value,
           ParsePluginPathsStrict
  <2> QED
    BY <2>1, <2>2, <2>3, <2>4, KeyStep DEF ParserInv
<1>6. CASE FromEnv
  <2>1. /\ outcome = "running" /\ outcome' = "ok" /\ file # None
        /\ line = Len(file) /\ UNCHANGED <<file, config_arg, line, overrides>>
    BY <1>6 DEF FromEnv
  <2>2. GoodFile
    BY <2>1, GoodFileLines DEF ParserInv, Opened, ReadInv
  <2>3. GoodFile'
    BY <2>1, <2>2 DEF GoodFile, LinesOf
  <2> QED
    BY <2>1, <2>3 DEF ParserInv, Opened, ReadInv, AcceptsGoodFiles
<1>7. CASE UNCHANGED vars
  BY <1>7
     DEF vars, ParserInv, Opened, ReadInv, AcceptsGoodFiles, GoodFile, LinesOf
<1> QED
  BY <1>1, <1>2, <1>3, <1>4, <1>5, <1>6, <1>7 DEF Next

\* The process starts with a file exactly if it is good as a whole: every line,
\* no key twice; for files of any length, whichever line is bad.
THEOREM FilesAsAWhole == Spec => []AcceptsGoodFiles
<1>1. Init => ParserInv
  BY DEF Init, ParserInv, Opened, ReadInv, AcceptsGoodFiles, SettingKeys
<1>2. ParserInv /\ [Next]_vars => ParserInv'
  BY ParserStep
<1>3. ParserInv => AcceptsGoodFiles
  BY DEF ParserInv
<1> QED
  BY <1>1, <1>2, <1>3, PTL DEF Spec

-----------------------------------------------------------------------------
(* Which values win *)

\* Splitting a list of paths keeps what is not blank, in order.
LEMMA PathsFiltered ==
  ASSUME NEW list, IsList(list)
  PROVE  WithoutBlanks(ParsePluginPaths(list), list)
<1> DEFINE kept == {i \in DOMAIN list : list[i] # Blank}
           before == [i \in kept |-> {j \in kept : j < i}]
           places == Listing(kept, before)
           n == Cardinality(kept)
<1>1. kept \subseteq 1..Len(list) /\ Len(list) \in Nat
  BY DEF IsList
<1>2. IsFiniteSet(kept)
  <2>1. IsFiniteSet(1..Len(list))
    BY <1>1, FS_Interval
  <2> QED
    BY <1>1, <2>1, FS_Subset
<1>3. Orders(before, kept)
  <2>1. \A i \in kept : i \in Nat
    BY <1>1
  <2>2. \A i, j \in kept : j \in before[i] <=> j < i
    OBVIOUS
  <2>3. \A i \in kept : before[i] \subseteq kept
    OBVIOUS
  <2> HIDE DEF kept, before
  <2> QED
    BY <2>1, <2>2, <2>3 DEF Orders
<1>4. /\ n \in Nat /\ places \in [1..n -> kept]
      /\ \A i \in kept : \E k \in 1..n : places[k] = i
      /\ \A k, l \in 1..n : k < l => places[k] \in before[places[l]]
  <2> HIDE DEF kept, before
  <2> QED
    BY <1>2, <1>3, ListingFacts
<1>5. ParsePluginPaths(list) = [k \in 1..n |-> list[places[k]]]
  <2>1. ParsePluginPaths(list) = [k \in DOMAIN places |-> list[places[k]]]
    BY DEF ParsePluginPaths
  <2> HIDE DEF places, kept, n
  <2> QED
    BY <1>4, <2>1
<1>6. \A k, l \in 1..n : k < l => places[k] < places[l]
  <2>1. \A i \in kept : \A j \in before[i] : j < i
    OBVIOUS
  <2> HIDE DEF places, kept, before, n
  <2> QED
    BY <1>4, <2>1
<1>7. {places[k] : k \in 1..n} = kept
  <2> HIDE DEF places, kept, before, n
  <2> QED
    BY <1>4
<1>8. /\ DOMAIN ParsePluginPaths(list) = 1..n
      /\ \A k \in 1..n : ParsePluginPaths(list)[k] = list[places[k]]
  BY <1>5
<1>9. places \in [1..n -> DOMAIN list]
  <2>1. kept \subseteq DOMAIN list
    OBVIOUS
  <2> HIDE DEF places, kept, n
  <2> QED
    BY <1>4, <2>1
<1>10. kept = {i \in DOMAIN list : list[i] # Blank}
  OBVIOUS
<1> DEFINE paths == ParsePluginPaths(list)
<1> HIDE DEF places, kept, n, paths
<1>11. /\ places \in [DOMAIN paths -> DOMAIN list]
       /\ \A k, l \in DOMAIN paths : k < l => places[k] < places[l]
       /\ \A k \in DOMAIN paths : paths[k] = list[places[k]]
       /\ {places[k] : k \in DOMAIN paths} = {i \in DOMAIN list : list[i] # Blank}
  BY <1>6, <1>7, <1>8, <1>9, <1>10 DEF paths
<1>12. WithoutBlanks(paths, list)
  BY <1>11 DEF WithoutBlanks
<1> QED
  BY <1>12 DEF paths

\* The strict form has nothing to leave out: it takes a list without blanks as it
\* is, and no text at all as an empty list.
LEMMA StrictPaths ==
  ASSUME NEW list, IsList(list),
         list = <<Blank>> \/ \A i \in DOMAIN list : list[i] # Blank
  PROVE  WithoutBlanks(ParsePluginPathsStrict(list), list)
<1>1. CASE list = <<Blank>>
  <2> DEFINE from == [k \in {} |-> 1]
  <2>1. DOMAIN <<>> = {} /\ ParsePluginPathsStrict(list) = <<>>
    BY <1>1 DEF ParsePluginPathsStrict
  <2>2. \A i \in DOMAIN list : list[i] = Blank
    BY <1>1
  <2>3. {i \in DOMAIN list : list[i] # Blank} = {}
    BY <2>2
  <2>4. from \in [{} -> DOMAIN list] /\ {from[i] : i \in {}} = {}
    OBVIOUS
  <2> QED
    BY <2>1, <2>3, <2>4 DEF WithoutBlanks
<1>2. CASE list # <<Blank>>
  <2> DEFINE from == [k \in DOMAIN list |-> k]
  <2>1. ParsePluginPathsStrict(list) = list
    BY <1>2 DEF ParsePluginPathsStrict
  <2>2. {i \in DOMAIN list : list[i] # Blank} = DOMAIN list
    BY <1>2
  <2>3. /\ from \in [DOMAIN list -> DOMAIN list]
        /\ \A i \in DOMAIN list : from[i] = i
        /\ {from[i] : i \in DOMAIN list} = DOMAIN list
    OBVIOUS
  <2> HIDE DEF from
  <2> QED
    BY <2>1, <2>2, <2>3 DEF WithoutBlanks
<1> QED
  BY <1>1, <1>2

\* The files are the ones the process was given; the overrides are values of lines
\* that were read, which later lines leave alone.
SourceInv ==
  /\ env \in Environments
  /\ outcome # "starting" => config_arg \in {file, Unset}
  /\ file # None /\ outcome # "starting" =>
       \A i \in DOMAIN file : file[i].kind = "plugin_paths" => IsList(file[i].value)
OverridesRead ==
  file # None /\ outcome \notin {"starting", "error"} =>
    /\ overrides.http_listen_addr # None =>
         \E i \in 1..line : /\ file[i].kind = "http_listen_addr"
                            /\ overrides.http_listen_addr = file[i].value
    /\ overrides.plugin_paths # None =>
         \E i \in 1..line :
           /\ file[i].kind = "plugin_paths"
           /\ overrides.plugin_paths = ParsePluginPathsStrict(file[i].value)
ConfigInv == ParserInv /\ SourceInv /\ OverridesRead /\ FileWins

\* Every step keeps the files the process was given.
LEMMA SourceStep ==
  ASSUME ParserInv, SourceInv, [Next]_vars
  PROVE  SourceInv'
<1>1. CASE Main
  <2>1. /\ outcome = "starting" /\ UNCHANGED <<env, config_arg>>
        /\ file' = config_arg \/ config_arg = Unset
        /\ file' \in ((ConfigFiles \cup EnvFiles) \ {Unset}) \cup {<<>>}
    BY <1>1 DEF Main, ParserInv
  <2>2. file' # None => \A i \in DOMAIN file' :
          file'[i].kind = "plugin_paths" => IsList(file'[i].value)
    <3>1. CASE file' = <<>>
      BY <3>1
    <3>2. CASE file' # <<>>
      BY <2>1, <3>2, RuntimeConfigAssumption DEF RuntimeConfigAssumption
    <3> QED
      BY <3>1, <3>2
  <2> QED
    BY <2>1, <2>2 DEF SourceInv
<1>2. CASE \/ ReadFails \/ CommentLine \/ MalformedLine \/ HttpListenAddrLine
           \/ PluginPathsLine \/ FromEnv \/ UNCHANGED vars
  <2>1. UNCHANGED <<env, config_arg, file>> /\ (outcome = "starting" => outcome' = "starting")
    BY <1>2 DEF ReadFails, CommentLine, MalformedLine, HttpListenAddrLine,
       PluginPathsLine, Reading, FromEnv, vars
  <2> QED
    BY <2>1 DEF SourceInv
<1> QED
  BY <1>1, <1>2 DEF Next

\* A line's value becomes the override of its key, or nothing does.
LEMMA ReadStep ==
  ASSUME ConfigInv, [Next]_vars
  PROVE  OverridesRead'
<1> USE DEF ConfigInv
<1>1. CASE Main
  BY <1>1 DEF Main, ParserInv, OverridesRead, SettingKeys
<1>2. CASE ReadFails \/ MalformedLine
  BY <1>2 DEF ReadFails, MalformedLine, OverridesRead
<1>3. CASE CommentLine \/ HttpListenAddrLine \/ PluginPathsLine
  <2>1. /\ outcome = "running" /\ file # None /\ line < Len(file)
        /\ line' = line + 1 /\ UNCHANGED file
    BY <1>3 DEF CommentLine, HttpListenAddrLine, PluginPathsLine, Reading
  <2>2. line \in Nat /\ 1..line \subseteq 1..line' /\ line + 1 \in 1..line'
    BY <2>1 DEF ParserInv, Opened, ReadInv
  <2>3. CASE CommentLine
    <3>1. UNCHANGED <<overrides, outcome>>
      BY <2>3 DEF CommentLine
    <3> QED
      BY <2>1, <2>2, <3>1 DEF OverridesRead
  <2>4. CASE outcome' = "error"
    BY <2>4 DEF OverridesRead
  <2>5. CASE HttpListenAddrLine /\ outcome' # "error"
    <3>1. /\ file[line + 1].kind = "http_listen_addr"
          /\ overrides' = [overrides EXCEPT !["http_listen_addr"] = file[line + 1].value]
          /\ UNCHANGED outcome
      BY <2>5 DEF HttpListenAddrLine, Reading, SetKey, Value
    <3>2. /\ overrides'.http_listen_addr = file[line + 1].value
          /\ overrides'.plugin_paths = overrides.plugin_paths
      BY <3>1 DEF ParserInv, SettingKeys
    <3> QED
      BY <2>1, <2>2, <3>1, <3>2 DEF OverridesRead
  <2>6. CASE PluginPathsLine /\ outcome' # "error"
    <3>1. /\ file[line + 1].kind = "plugin_paths"
          /\ overrides' = [overrides EXCEPT !["plugin_paths"] =
                             ParsePluginPathsStrict(file[line + 1].value)]
          /\ UNCHANGED outcome
      BY <2>6 DEF PluginPathsLine, Reading, SetKey, Value
    <3>2. /\ overrides'.plugin_paths = ParsePluginPathsStrict(file[line + 1].value)
          /\ overrides'.http_listen_addr = overrides.http_listen_addr
      BY <3>1 DEF ParserInv, SettingKeys
    <3> QED
      BY <2>1, <2>2, <3>1, <3>2 DEF OverridesRead
  <2> QED
    BY <1>3, <2>3, <2>4, <2>5, <2>6
<1>4. CASE FromEnv
  BY <1>4 DEF FromEnv, OverridesRead
<1>5. CASE UNCHANGED vars
  BY <1>5 DEF vars, OverridesRead
<1> QED
  BY <1>1, <1>2, <1>3, <1>4, <1>5 DEF Next

\* from_env puts each override where it is set, and the environment elsewhere.
LEMMA WinStep ==
  ASSUME ConfigInv, FromEnv
  PROVE  FileWins'
<1> USE DEF ConfigInv
<1>1. /\ outcome = "running" /\ file # None /\ line = Len(file)
      /\ UNCHANGED <<env, config_arg, file>>
      /\ DOMAIN file = 1..Len(file)
  BY DEF FromEnv, ParserInv, Opened
<1>2. config_arg \in {file, Unset}
  BY <1>1 DEF SourceInv
<1>3. /\ DOMAIN env = {"http_listen_addr", "tcp_listen_addr", "udp_listen_addr",
                       "plugin_paths"}
      /\ IsList(env.plugin_paths)
  BY RuntimeConfigAssumption DEF RuntimeConfigAssumption, SourceInv
<1>4. /\ config'.tcp_listen_addr = env.tcp_listen_addr
      /\ config'.udp_listen_addr = env.udp_listen_addr
      /\ config'.http_listen_addr = Over(overrides.http_listen_addr, env.http_listen_addr)
      /\ config'.plugin_paths =
           Over(overrides.plugin_paths, ParsePluginPaths(env.plugin_paths))
  BY <1>3 DEF FromEnv
<1>5. \A key \in SettingKeys : overrides[key] # None <=> LinesOf(key) # {}
  BY <1>1 DEF ParserInv, ReadInv, LinesOf
<1>6. config'.http_listen_addr \in Candidates("http_listen_addr")
  <2> DEFINE key == "http_listen_addr"
  <2>1. CASE Values(key) = {}
    <3>1. LinesOf(key) = {}
      BY <2>1 DEF Values
    <3> QED
      BY <1>4, <1>5, <2>1, <3>1 DEF SettingKeys, Over, Candidates
  <2>2. CASE Values(key) # {}
    <3>1. overrides.http_listen_addr # None
      BY <1>5, <2>2 DEF SettingKeys, Values
    <3>2. PICK i \in 1..line : /\ file[i].kind = key
                               /\ overrides.http_listen_addr = file[i].value
      BY <1>1, <3>1 DEF OverridesRead
    <3>3. i \in LinesOf(key)
      BY <1>1, <3>2 DEF LinesOf
    <3> QED
      BY <1>4, <2>2, <3>1, <3>2, <3>3 DEF Over, Values, Candidates
  <2> QED
    BY <2>1, <2>2
<1>7. \E list \in Candidates("plugin_paths") : WithoutBlanks(config'.plugin_paths, list)
  <2> DEFINE key == "plugin_paths"
  <2>1. CASE Values(key) = {}
    <3>1. LinesOf(key) = {}
      BY <2>1 DEF Values
    <3>2. config'.plugin_paths = ParsePluginPaths(env.plugin_paths)
      BY <1>4, <1>5, <3>1 DEF SettingKeys, Over
    <3>3. WithoutBlanks(config'.plugin_paths, env.plugin_paths)
      BY <1>3, <3>2, PathsFiltered
    <3> QED
      BY <2>1, <3>3 DEF Candidates
  <2>2. CASE Values(key) # {}
    <3>1. overrides.plugin_paths # None
      BY <1>5, <2>2 DEF SettingKeys, Values
    <3>2. PICK i \in 1..line :
            /\ file[i].kind = key
            /\ overrides.plugin_paths = ParsePluginPathsStrict(file[i].value)
      BY <1>1, <3>1 DEF OverridesRead
    <3>3. i \in LinesOf(key) /\ i \in DOMAIN file
      BY <1>1, <3>2 DEF LinesOf
    <3>4. IsList(file[i].value)
      BY <1>1, <3>2, <3>3 DEF SourceInv
    <3>5. \/ file[i].value = <<Blank>>
          \/ \A k \in DOMAIN file[i].value : file[i].value[k] # Blank
      <4>1. GoodLine(file[i])
        BY <1>1, <3>2 DEF ParserInv, ReadInv
      <4> QED
        BY <3>2, <4>1 DEF GoodLine, GoodValue
    <3>6. config'.plugin_paths = ParsePluginPathsStrict(file[i].value)
      BY <1>4, <3>1, <3>2 DEF Over
    <3>7. WithoutBlanks(config'.plugin_paths, file[i].value)
      BY <3>4, <3>5, <3>6, StrictPaths
    <3>8. file[i].value \in Candidates(key)
      BY <2>2, <3>3 DEF Values, Candidates
    <3> QED
      BY <3>7, <3>8
  <2> QED
    BY <2>1, <2>2
<1>8. UNCHANGED <<Candidates("http_listen_addr"), Candidates("plugin_paths")>>
  BY <1>1 DEF Candidates, Values, LinesOf
<1>9. (\E list \in Candidates("plugin_paths") : WithoutBlanks(config.plugin_paths, list))'
  BY <1>7, <1>8 DEF WithoutBlanks
<1> QED
  BY <1>1, <1>2, <1>4, <1>6, <1>8, <1>9 DEF FileWins

\* What was true of the process's configuration stays true.
LEMMA WinsStay ==
  ASSUME FileWins, UNCHANGED <<env, config_arg, file, outcome, config>>
  PROVE  FileWins'
<1>1. UNCHANGED <<Candidates("http_listen_addr"), Candidates("plugin_paths")>>
  BY DEF Candidates, Values, LinesOf
<1>2. (\E list \in Candidates("plugin_paths") : WithoutBlanks(config.plugin_paths, list))
      => (\E list \in Candidates("plugin_paths") : WithoutBlanks(config.plugin_paths, list))'
  BY <1>1 DEF WithoutBlanks
<1> QED
  BY <1>1, <1>2 DEF FileWins

\* What the process runs with: the file of --config over that of VAKIL_CONFIG, its
\* values, even an empty list of plugins, over the environment's, the paths without
\* blanks in their order; for files and lists of any length.
THEOREM PrecedenceKept == Spec => []FileWins
<1>1. Init => ConfigInv
  BY DEF Init, ConfigInv, ParserInv, Opened, ReadInv, AcceptsGoodFiles, SettingKeys,
     SourceInv, OverridesRead, FileWins
<1>2. ConfigInv /\ [Next]_vars => ConfigInv'
  <2> SUFFICES ASSUME ConfigInv, [Next]_vars
               PROVE  ConfigInv'
    OBVIOUS
  <2>1. ParserInv' /\ SourceInv' /\ OverridesRead'
    BY ParserStep, SourceStep, ReadStep DEF ConfigInv
  <2>2. FileWins'
    <3>1. CASE FromEnv
      BY <3>1, WinStep
    <3>2. CASE ~FromEnv
      <4>1. outcome' # "ok" \/ UNCHANGED <<env, config_arg, file, outcome, config>>
        BY <3>2 DEF Next, Main, ReadFails, CommentLine, MalformedLine,
           HttpListenAddrLine, PluginPathsLine, Reading, SetKey, vars
      <4> QED
        BY <4>1, WinsStay DEF ConfigInv, FileWins
    <3> QED
      BY <3>1, <3>2
  <2> QED
    BY <2>1, <2>2 DEF ConfigInv
<1>3. ConfigInv => FileWins
  BY DEF ConfigInv
<1> QED
  BY <1>1, <1>2, <1>3, PTL DEF Spec
=============================================================================

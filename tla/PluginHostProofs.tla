-------------------------- MODULE PluginHostProofs --------------------------
(***************************************************************************)
(* Proofs about PluginHost: for every configuration, any number of         *)
(* libraries and any set of priorities.                                    *)
(***************************************************************************)
EXTENDS PluginHost, TLAPS

\* The three blocks of load_modules follow each other and then load is done.
LEMMA StageFacts ==
  /\ NextStage("http") = "tcp" /\ NextStage("tcp") = "udp"
  /\ NextStage("udp") = "idle"
  BY DEF NextStage

\* The five steps that drop a LoadedPlugin
LEMMA OrderFacts ==
  /\ Len(DropOrder) = 5
  /\ DropOrder[1] = "http" /\ DropOrder[2] = "tcp" /\ DropOrder[3] = "udp"
  /\ DropOrder[4] = "root" /\ DropOrder[5] = "library"
  BY DEF DropOrder

\* Each protocol is shut down in one of the first three.
LEMMA StepFacts == StepOf("http") = 1 /\ StepOf("tcp") = 2 /\ StepOf("udp") = 3
  BY DEF StepOf

\* Finishing a block keeps the stage and the vector of plugins in their types.
LEMMA BlockDoneType ==
  ASSUME HostTypeOK, HostInv, stage \in Protocols, BlockDone
  PROVE  /\ opened \in 1..Slots
         /\ stage' \in Stages
         /\ loaded' \in Seq(1..Slots) /\ gone \in 0..Len(loaded')
<1>1. opened \in 1..Slots /\ stage # "idle"
  BY PluginHostAssumption DEF PluginHostAssumption, HostTypeOK, HostInv,
     LoadingOpen, Protocols
<1>2. stage' \in Stages
  BY StageFacts DEF BlockDone, Protocols, Stages
<1>3. loaded' \in Seq(1..Slots) /\ Len(loaded') >= Len(loaded)
  <2>1. CASE stage = "udp"
    BY <1>1, <2>1 DEF BlockDone, HostTypeOK
  <2>2. CASE stage # "udp"
    BY <2>2 DEF BlockDone, HostTypeOK
  <2> QED
    BY <2>1, <2>2
<1> QED
  BY <1>1, <1>2, <1>3 DEF HostTypeOK

\* A failing load drops the root module of the last slot first.
LEMMA AbandonType ==
  ASSUME HostTypeOK, Abandon
  PROVE  /\ stage' \in Stages
         /\ root' \in [1..Slots -> BOOLEAN]
  BY DEF HostTypeOK, Abandon, Stages

\* A step keeps every variable in its type.
LEMMA HostTypeStep ==
  ASSUME HostTypeOK, HostInv, [HostNext]_hostVars
  PROVE  HostTypeOK'
<1> USE PluginHostAssumption DEF PluginHostAssumption
<1>1. CASE SkipPath
  BY <1>1 DEF SkipPath, AtPath, HostTypeOK
<1>2. CASE EnterPath
  <2>1. at' \in 1..Len(plugin_paths)
    BY <1>2 DEF EnterPath, AtPath, HostTypeOK
  <2>2. plugin_paths[at'].files \in Nat
    <3>1. plugin_paths[at'] \in Entries
      BY <2>1 DEF HostTypeOK
    <3> QED
      BY <3>1 DEF Entries
  <2> QED
    BY <1>2, <2>1, <2>2 DEF EnterPath, HostTypeOK
<1>3. CASE ReadDirFails
  BY <1>3 DEF ReadDirFails, HostTypeOK
<1>4. CASE LoadingDone
  BY <1>4 DEF LoadingDone, HostTypeOK
<1>5. CASE OpenLibrary
  <2>1. left' \in Nat
    BY <1>5 DEF OpenLibrary, HostTypeOK
  <2>2. CASE phase' = "unwinding" /\ UNCHANGED <<opened, stage, handle>>
    BY <1>5, <2>1, <2>2 DEF OpenLibrary, HostTypeOK
  <2>3. CASE /\ opened' = opened + 1 /\ stage' = "symbol"
             /\ handle' = [handle EXCEPT ![opened'] = "open"]
             /\ UNCHANGED phase
    <3>1. opened' \in 0..Slots /\ stage' \in Stages
      BY <1>5, <2>3 DEF OpenLibrary, HostTypeOK, Stages
    <3>2. handle' \in [1..Slots -> {"none", "open", "closed"}]
      BY <2>3 DEF HostTypeOK
    <3> QED
      BY <1>5, <2>1, <2>3, <3>1, <3>2 DEF OpenLibrary, HostTypeOK
  <2> QED
    BY <1>5, <2>2, <2>3 DEF OpenLibrary
<1>6. CASE GetLibrary
  <2>1. CASE Abandon /\ UNCHANGED exports
    BY <1>6, <2>1, AbandonType DEF GetLibrary, HostTypeOK
  <2>2. CASE /\ stage' = "manifest"
             /\ root' = [root EXCEPT ![opened] = TRUE]
             /\ \E ps \in SUBSET Protocols :
                  exports' = [exports EXCEPT ![opened] = ps]
    <3>1. exports' \in [1..Slots -> SUBSET Protocols]
      BY <2>2 DEF HostTypeOK
    <3>2. root' \in [1..Slots -> BOOLEAN] /\ stage' \in Stages
      BY <2>2 DEF HostTypeOK, Stages
    <3> QED
      BY <1>6, <2>2, <3>1, <3>2 DEF GetLibrary, HostTypeOK
  <2> QED
    BY <1>6, <2>1, <2>2 DEF GetLibrary
<1>7. CASE ValidateManifest
  <2>1. CASE Abandon
    BY <1>7, <2>1, AbandonType DEF ValidateManifest, HostTypeOK
  <2>2. CASE stage' = "http" /\ UNCHANGED root
    BY <1>7, <2>2 DEF ValidateManifest, HostTypeOK, Stages, Protocols
  <2> QED
    BY <1>7, <2>1, <2>2 DEF ValidateManifest
<1>8. CASE LoadNoFactory
  <2>1. UNCHANGED <<phase, handle, root>>
    BY <1>8 DEF LoadNoFactory, BlockDone
  <2> QED
    BY <1>8, <2>1, BlockDoneType DEF LoadNoFactory, HostTypeOK
<1>9. CASE LoadModule
  <2>1. UNCHANGED <<phase, handle, root>> /\ stage \in Protocols
    BY <1>9 DEF LoadModule, BlockDone
  <2>2. module' \in [1..Slots -> [Protocols -> {"none", "live", "down"}]]
    BY <1>9 DEF LoadModule, HostTypeOK
  <2>3. priority' \in [1..Slots -> [Protocols -> Priorities \cup {0}]]
    <3>1. PICK n \in Priorities :
            priority' = [priority EXCEPT ![opened][stage] = n]
      BY <1>9 DEF LoadModule
    <3>2. priority \in [1..Slots -> [Protocols -> Priorities \cup {0}]]
      BY DEF HostTypeOK
    <3>3. n \in Priorities \cup {0}
      OBVIOUS
    <3> QED
      BY <3>1, <3>2, <3>3
  <2> QED
    BY <1>9, <2>1, <2>2, <2>3, BlockDoneType DEF LoadModule, HostTypeOK
<1>10. CASE LoadFails
  BY <1>10, AbandonType DEF LoadFails, HostTypeOK
<1>11. CASE DropNext
  <2>1. handle' \in [1..Slots -> {"none", "open", "closed"}]
    BY <1>11 DEF DropNext, HostTypeOK
  <2>2. root' \in [1..Slots -> BOOLEAN]
    BY <1>11 DEF DropNext, HostTypeOK
  <2>3. module' \in [1..Slots -> [Protocols -> {"none", "live", "down"}]]
    BY <1>11 DEF DropNext, HostTypeOK
  <2>4. gone' \in 0..Len(loaded) /\ drop' \in 1..Len(DropOrder)
    BY <1>11, OrderFacts DEF DropNext, HostTypeOK
  <2> QED
    BY <1>11, <2>1, <2>2, <2>3, <2>4 DEF DropNext, HostTypeOK
<1>12. CASE DropDone
  BY <1>12 DEF DropDone, HostTypeOK
<1>13. CASE Release
  BY <1>13 DEF Release, HostTypeOK
<1>14. CASE EntryFails
  BY <1>14 DEF EntryFails, HostTypeOK
<1>15. CASE CloseAbandoned
  BY <1>15 DEF CloseAbandoned, HostTypeOK, Stages
<1>16. CASE UNCHANGED hostVars
  BY <1>16 DEF hostVars, HostTypeOK
<1> QED
  BY <1>1, <1>2, <1>3, <1>4, <1>5, <1>6, <1>7, <1>8, <1>9, <1>10, <1>11,
     <1>12, <1>13, <1>14, <1>15, <1>16 DEF HostNext

\* The loaded plugins are in the first slots, each with its exports in Protocols.
LEMMA LoadedSlots ==
  ASSUME HostTypeOK, HostInv
  PROVE  /\ Slots \in Nat /\ opened \in 0..Slots /\ Len(loaded) \in 0..opened
         /\ gone \in 0..Len(loaded) /\ drop \in 1..5
         /\ \A s \in 1..Len(loaded) : /\ s \in 1..Slots /\ loaded[s] = s
                                      /\ exports[s] \subseteq Protocols
<1>1. /\ Slots \in Nat /\ opened \in 0..Slots /\ Len(loaded) \in 0..opened
      /\ gone \in 0..Len(loaded) /\ drop \in 1..5
  BY PluginHostAssumption, OrderFacts DEF PluginHostAssumption, HostTypeOK,
     HostInv, InOrder
<1>2. \A s \in 1..Len(loaded) : s \in 1..Slots
  BY <1>1
<1> QED
  BY <1>1, <1>2 DEF HostTypeOK, HostInv, InOrder

\* A load that fails leaves the invariant: its slot is still open, without root.
LEMMA AbandonKeeps ==
  ASSUME HostTypeOK, HostInv, HostTypeOK', stage # "idle", Abandon,
         UNCHANGED <<phase, at, left, opened, handle, exports, module, priority,
                     loaded, gone, drop, plugin_paths>>
  PROVE  HostInv'
<1>1. /\ phase = "loading" /\ opened = Len(loaded) + 1 /\ opened \in 1..Slots
      /\ gone = 0 /\ drop = 1
  BY PluginHostAssumption DEF PluginHostAssumption, HostTypeOK, HostInv,
     LoadingOpen, NotDropping
<1>2. /\ stage' = "abandoned" /\ ~root'[opened]
      /\ \A s \in 1..Slots : s # opened => root'[s] = root[s]
  BY <1>1 DEF Abandon, HostTypeOK
<1>3. \A s \in 1..Len(loaded) : s \in 1..Slots /\ s # opened
  BY <1>1, LoadedSlots
<1>4. InOrder' /\ LoadingOpen' /\ ExportsLive'
  BY <1>1, <1>2 DEF HostInv, InOrder, LoadingOpen, ExportsLive
<1>5. Untouched' /\ Kept'
  BY <1>1, <1>2, <1>3 DEF HostInv, Untouched, Kept
<1>6. DroppedSteps'
  BY <1>1, <1>2, <1>3 DEF HostInv, DroppedSteps, Kept
<1>7. NotDropping'
  BY <1>1, <1>2 DEF HostInv, NotDropping
<1> QED
  BY <1>4, <1>5, <1>6, <1>7 DEF HostInv

\* Closing its library leaves the invariant: the slot is closed and not loaded.
LEMMA CloseKeeps ==
  ASSUME HostTypeOK, HostInv, HostTypeOK', CloseAbandoned
  PROVE  HostInv'
<1>1. /\ phase = "loading" /\ opened = Len(loaded) + 1 /\ opened \in 1..Slots
      /\ gone = 0 /\ drop = 1 /\ ~root[opened]
  BY PluginHostAssumption DEF PluginHostAssumption, HostTypeOK, HostInv,
     LoadingOpen, NotDropping, CloseAbandoned
<1>2. /\ phase' = "unwinding" /\ stage' = "idle" /\ handle'[opened] = "closed"
      /\ \A s \in 1..Slots : s # opened => handle'[s] = handle[s]
      /\ UNCHANGED <<left, opened, root, exports, module, loaded, gone, drop>>
  BY <1>1 DEF CloseAbandoned, HostTypeOK
<1>3. \A s \in 1..Len(loaded) : s \in 1..Slots /\ s # opened
  BY <1>1, LoadedSlots
<1>4. InOrder' /\ LoadingOpen' /\ ExportsLive'
  BY <1>1, <1>2 DEF HostInv, InOrder, LoadingOpen, ExportsLive
<1>5. Untouched' /\ Kept'
  BY <1>1, <1>2, <1>3 DEF HostInv, Untouched, Kept
<1>6. DroppedSteps'
  BY <1>1, <1>2, <1>3 DEF HostInv, DroppedSteps, Kept
<1>7. NotDropping'
  BY <1>1, <1>2 DEF HostTypeOK, NotDropping
<1> QED
  BY <1>4, <1>5, <1>6, <1>7 DEF HostInv

\* A block of load_modules that ends leaves the invariant, if it leaves the module
\* of its protocol live where the root module exports it.
LEMMA BlockKeeps ==
  ASSUME HostTypeOK, HostInv, HostTypeOK', stage \in Protocols, BlockDone,
         UNCHANGED <<at, left, opened, exports, gone, drop, plugin_paths>>,
         stage \in exports[opened] => module'[opened][stage] = "live",
         \A s \in 1..Slots, p \in Protocols :
           s # opened \/ p # stage => module'[s][p] = module[s][p]
  PROVE  HostInv'
<1>1. /\ phase = "loading" /\ opened = Len(loaded) + 1 /\ opened \in 1..Slots
      /\ gone = 0 /\ drop = 1 /\ handle[opened] = "open" /\ root[opened]
  BY PluginHostAssumption DEF PluginHostAssumption, HostTypeOK, HostInv,
     LoadingOpen, NotDropping, Protocols
<1>2. UNCHANGED <<phase, handle, root>>
  BY DEF BlockDone
<1>3. stage # "udp" => stage' \in Protocols /\ stage' # "idle" /\ loaded' = loaded
  BY StageFacts DEF BlockDone, Protocols
<1>4. stage = "udp" => /\ stage' = "idle" /\ Len(loaded') = opened
                       /\ \A i \in 1..Len(loaded) : loaded'[i] = loaded[i]
                       /\ loaded'[opened] = opened
  BY <1>1, StageFacts DEF BlockDone, HostTypeOK
<1>5. InOrder'
  BY <1>1, <1>2, <1>3, <1>4 DEF HostInv, InOrder, HostTypeOK
<1>6. LoadingOpen'
  BY <1>1, <1>2, <1>3, <1>4 DEF LoadingOpen, Protocols
<1>7. ExportsLive'
  BY <1>1, <1>3, <1>4, StageFacts DEF HostInv, ExportsLive, BlockDone, Protocols,
     HostTypeOK
<1>8. Untouched'
  BY <1>2 DEF HostInv, Untouched
<1>9. stage = "udp" => \A p \in exports[opened] : module'[opened][p] = "live"
  BY <1>1 DEF HostInv, ExportsLive, Protocols, HostTypeOK
<1>10. \A s \in 1..Len(loaded) : s \in 1..Slots /\ s # opened
  BY <1>1, LoadedSlots
<1>11. \A s \in 1..Len(loaded) : \A p \in Protocols : module'[s][p] = module[s][p]
  BY <1>10
<1>12. Kept'
  <2>1. \A s \in 1..Len(loaded) : /\ handle[s] = "open" /\ root[s]
                                  /\ \A p \in exports[s] : module[s][p] = "live"
    BY <1>1 DEF HostInv, Kept, HostTypeOK
  <2>2. \A s \in 1..Len(loaded) : exports[s] \subseteq Protocols
    BY <1>10 DEF HostTypeOK
  <2>3. CASE stage # "udp"
    BY <1>2, <1>3, <1>11, <2>1, <2>2, <2>3 DEF Kept
  <2>4. CASE stage = "udp"
    <3>1. \A s \in 1..Len(loaded') : s # opened => s \in 1..Len(loaded)
      BY <1>1, <1>4, <2>4, LoadedSlots
    <3>2. loaded' # <<>> /\ handle'[opened] = "open" /\ root'[opened]
      BY <1>1, <1>2, <1>4, <2>4
    <3> SUFFICES ASSUME NEW s \in 1..Len(loaded')
                 PROVE  /\ handle'[s] = "open" /\ root'[s]
                        /\ \A p \in exports'[s] : module'[s][p] = "live"
      BY DEF Kept
    <3>3. CASE s = opened
      BY <1>9, <2>4, <3>2, <3>3
    <3>4. CASE s # opened
      BY <1>2, <1>11, <2>1, <2>2, <3>1, <3>4
    <3> QED
      BY <3>3, <3>4
  <2> QED
    BY <2>3, <2>4
<1>13. DroppedSteps'
  <2>1. \A p \in Protocols : ~(StepOf(p) < drop')
    BY <1>1, StepFacts DEF Protocols
  <2>2. gone' < Len(loaded') => handle'[gone' + 1] = "open" /\ root'[gone' + 1]
    BY <1>1, <1>12 DEF Kept, HostTypeOK
  <2>3. \A s \in 1..Len(loaded') : ~(s <= gone')
    BY <1>1 DEF HostTypeOK
  <2> QED
    BY <1>1, <2>1, <2>2, <2>3 DEF DroppedSteps
<1>14. NotDropping'
  BY <1>1, <1>2 DEF HostInv, NotDropping, HostTypeOK
<1> QED
  BY <1>5, <1>6, <1>7, <1>8, <1>12, <1>13, <1>14 DEF HostInv

\* One step of a drop acts on the slot it is at and on no other.
LEMMA DropNextEffect ==
  ASSUME HostTypeOK, HostInv, DropNext
  PROVE  /\ gone + 1 \in 1..Len(loaded) /\ gone + 1 \in 1..Slots
         /\ phase \in Dropping /\ stage = "idle"
         /\ UNCHANGED <<phase, at, left, opened, stage, exports, loaded, plugin_paths>>
         /\ \A s \in 1..Slots : s # gone + 1 =>
              /\ handle'[s] = handle[s] /\ root'[s] = root[s]
              /\ \A p \in Protocols : module'[s][p] = module[s][p]
         /\ handle'[gone + 1] = IF drop = 5 THEN "closed" ELSE handle[gone + 1]
         /\ root'[gone + 1] = IF drop = 4 THEN FALSE ELSE root[gone + 1]
         /\ \A p \in Protocols :
              /\ module[gone + 1][p] # "live" => module'[gone + 1][p] # "live"
              /\ StepOf(p) = drop => module'[gone + 1][p] # "live"
         /\ drop' = IF drop = 5 THEN 1 ELSE drop + 1
         /\ gone' = IF drop = 5 THEN gone + 1 ELSE gone
<1>1. /\ gone + 1 \in 1..Len(loaded) /\ loaded[gone + 1] = gone + 1
      /\ gone + 1 \in 1..Slots /\ drop \in 1..5
  BY LoadedSlots DEF DropNext
<1>2. phase \in Dropping /\ stage = "idle"
  BY DEF DropNext, Dropping, HostInv, LoadingOpen
<1>3. /\ DropOrder[drop] = "library" <=> drop = 5
      /\ DropOrder[drop] = "root" <=> drop = 4
      /\ \A p \in Protocols : DropOrder[drop] = p <=> drop = StepOf(p)
  BY <1>1, OrderFacts, StepFacts DEF Protocols
<1>4. /\ module' = [module EXCEPT ![gone + 1] =
            [p \in Protocols |->
               IF p = DropOrder[drop] /\ module[gone + 1][p] = "live"
               THEN "down" ELSE module[gone + 1][p]]]
      /\ root' = [root EXCEPT ![gone + 1] =
                    IF DropOrder[drop] = "root" THEN FALSE ELSE root[gone + 1]]
      /\ handle' = [handle EXCEPT ![gone + 1] =
            IF DropOrder[drop] = "library" THEN "closed" ELSE handle[gone + 1]]
  BY <1>1 DEF DropNext
<1>5. \A p \in Protocols :
        /\ module[gone + 1][p] # "live" => module'[gone + 1][p] # "live"
        /\ StepOf(p) = drop => module'[gone + 1][p] # "live"
  BY <1>1, <1>3, <1>4 DEF HostTypeOK
<1>6. \A s \in 1..Slots : s # gone + 1 =>
        /\ handle'[s] = handle[s] /\ root'[s] = root[s]
        /\ \A p \in Protocols : module'[s][p] = module[s][p]
  BY <1>4 DEF HostTypeOK
<1>7. /\ handle'[gone + 1] = IF drop = 5 THEN "closed" ELSE handle[gone + 1]
      /\ root'[gone + 1] = IF drop = 4 THEN FALSE ELSE root[gone + 1]
  BY <1>1, <1>3, <1>4 DEF HostTypeOK
<1> QED
  BY <1>1, <1>2, <1>5, <1>6, <1>7, OrderFacts DEF DropNext

\* A step of a drop leaves the invariant.
LEMMA DropKeeps ==
  ASSUME HostTypeOK, HostInv, HostTypeOK', DropNext
  PROVE  HostInv'
<1> DEFINE g == gone + 1
<1>1. /\ g \in 1..Len(loaded) /\ g \in 1..Slots /\ gone \in Nat
      /\ Len(loaded) \in Nat /\ drop \in 1..5
      /\ \A s \in 1..Len(loaded) : s \in 1..Slots /\ exports[s] \subseteq Protocols
  BY DropNextEffect, LoadedSlots
<1>inv. /\ InOrder /\ LoadingOpen /\ ExportsLive /\ Untouched /\ Kept
      /\ DroppedSteps /\ NotDropping
  BY DEF HostInv
<1>2. InOrder' /\ LoadingOpen' /\ ExportsLive'
  BY <1>inv, DropNextEffect DEF InOrder, LoadingOpen, ExportsLive
<1>3. Untouched'
  BY <1>1, LoadedSlots, <1>inv, DropNextEffect DEF Untouched
<1>4. Kept'
  <2>1. \A s \in 1..Len(loaded) :
          gone' + 1 < s \/ (gone' + 1 = s /\ drop' = 1) => s # g /\ g < s
    BY <1>1, DropNextEffect
  <2>2. \A s \in 1..Len(loaded) : g < s =>
          /\ handle'[s] = "open" /\ root'[s]
          /\ \A p \in exports[s] : module'[s][p] = "live"
    BY <1>1, <1>inv, DropNextEffect DEF Kept
  <2> QED
    BY <2>1, <2>2, <1>inv, DropNextEffect DEF Kept
<1>5. DroppedSteps'
  <2>1. \A s \in 1..Len(loaded) : s <= gone' => handle'[s] = "closed" /\ ~root'[s]
    <3>1. \A s \in 1..Len(loaded) : s <= gone => handle'[s] = "closed" /\ ~root'[s]
      BY <1>1, <1>inv, DropNextEffect DEF DroppedSteps
    <3>2. drop = 5 => handle'[g] = "closed" /\ ~root'[g]
      BY <1>1, <1>inv, DropNextEffect DEF DroppedSteps
    <3> QED
      BY <1>1, <3>1, <3>2, DropNextEffect
  <2>2. gone' < Len(loaded) => /\ handle'[gone' + 1] = "open"
                               /\ root'[gone' + 1] <=> drop' < 5
    <3>1. CASE drop = 5
      BY <1>1, <1>4, <3>1, <1>inv, DropNextEffect DEF Kept
    <3>2. CASE drop # 5
      <4>1. gone' = gone /\ drop' = drop + 1
        BY <3>2, DropNextEffect
      <4>2. handle[g] = "open" /\ root[g]
        BY <1>1, <1>inv, <3>2 DEF DroppedSteps
      <4>3. /\ handle'[g] = "open"
            /\ drop = 4 => ~root'[g]
            /\ drop # 4 => root'[g]
        BY <3>2, <4>2, DropNextEffect
      <4> QED
        BY <1>1, <3>2, <4>1, <4>3
    <3> QED
      BY <3>1, <3>2
  <2>3. ASSUME NEW s \in 1..Len(loaded), NEW p \in Protocols,
               s <= gone' \/ (s = gone' + 1 /\ StepOf(p) < drop')
        PROVE  module'[s][p] # "live"
    <3>1. StepOf(p) \in 1..3
      BY StepFacts DEF Protocols
    <3>2. CASE s # g
      <4>1. s <= gone
        BY <1>1, <2>3, <3>1, <3>2, DropNextEffect
      <4> QED
        BY <1>1, <3>2, <4>1, <1>inv, DropNextEffect DEF DroppedSteps
    <3>3. CASE s = g /\ StepOf(p) = drop
      BY <3>3, DropNextEffect
    <3>4. CASE s = g /\ StepOf(p) # drop
      <4>1. StepOf(p) < drop
        BY <1>1, <2>3, <3>1, <3>4, DropNextEffect
      <4> QED
        BY <1>1, <3>4, <4>1, <1>inv, DropNextEffect DEF DroppedSteps
    <3> QED
      BY <3>2, <3>3, <3>4
  <2> QED
    BY <2>1, <2>2, <2>3, <1>inv, DropNextEffect DEF DroppedSteps
<1>6. NotDropping'
  <2>1. phase' \in Dropping /\ phase' \notin {"loading", "built", "failed", "stopped"}
    BY DropNextEffect DEF Dropping
  <2>2. gone' = Len(loaded') => drop' = 1
    BY <1>1, DropNextEffect
  <2>3. ASSUME phase' = "unwinding", NEW s \in 1..opened', s > Len(loaded')
        PROVE  handle'[s] = "closed" /\ ~root'[s]
    <3>1. phase = "unwinding" /\ opened' = opened /\ loaded' = loaded
      BY <2>3, DropNextEffect
    <3>2. s \in 1..Slots /\ s # g
      BY <1>1, <2>3, <3>1, LoadedSlots
    <3>3. handle[s] = "closed" /\ ~root[s]
      BY <1>inv, <2>3, <3>1 DEF NotDropping
    <3> QED
      BY <3>2, <3>3, DropNextEffect
  <2> QED
    BY <2>1, <2>2, <2>3 DEF NotDropping
<1> QED
  BY <1>2, <1>3, <1>4, <1>5, <1>6 DEF HostInv

\* Opening a library leaves the invariant: it takes the slot after the loaded ones.
LEMMA OpenKeeps ==
  ASSUME HostTypeOK, HostInv, HostTypeOK', OpenLibrary
  PROVE  HostInv'
<1>1. /\ phase = "loading" /\ stage = "idle" /\ gone = 0 /\ drop = 1
      /\ opened = Len(loaded) /\ opened \in Nat /\ opened + 1 \in 1..Slots
  BY LoadedSlots DEF OpenLibrary, HostInv, InOrder, NotDropping
<1>2. UNCHANGED <<root, exports, module, loaded, gone, drop>>
  BY DEF OpenLibrary
<1>inv. /\ InOrder /\ LoadingOpen /\ ExportsLive /\ Untouched /\ Kept
        /\ DroppedSteps /\ NotDropping
  BY DEF HostInv
<1>3. CASE phase' = "unwinding" /\ UNCHANGED <<opened, stage, handle>>
  <2>1. \A s \in 1..opened' : ~(s > Len(loaded'))
    BY <1>1, <1>2, <1>3
  <2>2. InOrder' /\ LoadingOpen' /\ ExportsLive' /\ Untouched' /\ Kept'
    BY <1>1, <1>2, <1>3, <1>inv DEF InOrder, LoadingOpen, ExportsLive, Untouched, Kept
  <2>3. DroppedSteps' /\ NotDropping'
    BY <1>1, <1>2, <1>3, <1>inv, <2>1 DEF DroppedSteps, NotDropping
  <2> QED
    BY <2>2, <2>3 DEF HostInv
<1>4. CASE /\ opened' = opened + 1 /\ stage' = "symbol" /\ UNCHANGED phase
           /\ handle' = [handle EXCEPT ![opened'] = "open"]
  <2>1. /\ handle'[opened + 1] = "open" /\ ~root[opened + 1]
        /\ \A s \in 1..Slots : s # opened + 1 => handle'[s] = handle[s]
    BY <1>1, <1>4, <1>inv DEF HostTypeOK, Untouched
  <2>2. \A s \in 1..Len(loaded) : s \in 1..Slots /\ s # opened + 1
    BY <1>1, LoadedSlots
  <2>3. InOrder' /\ LoadingOpen' /\ ExportsLive'
    BY <1>1, <1>2, <1>4, <1>inv, <2>1 DEF InOrder, LoadingOpen, ExportsLive
  <2>4. Untouched'
    BY <1>1, <1>2, <1>4, <1>inv, <2>1 DEF Untouched
  <2>5. Kept'
    BY <1>1, <1>2, <1>4, <1>inv, <2>1, <2>2 DEF Kept
  <2>6. DroppedSteps'
    BY <1>1, <1>2, <1>inv, <2>1, <2>2 DEF DroppedSteps
  <2>7. NotDropping'
    BY <1>1, <1>2, <1>4, <1>inv DEF NotDropping
  <2> QED
    BY <2>3, <2>4, <2>5, <2>6, <2>7 DEF HostInv
<1> QED
  BY <1>3, <1>4 DEF OpenLibrary

\* Every step of the host leaves the invariant.
LEMMA HostInvStep ==
  ASSUME HostTypeOK, HostInv, HostTypeOK', [HostNext]_hostVars
  PROVE  HostInv'
<1>1. CASE SkipPath
  BY <1>1 DEF SkipPath, AtPath, HostInv, InOrder, LoadingOpen, ExportsLive,
     Untouched, Kept, DroppedSteps, NotDropping
<1>2. CASE EnterPath
  BY <1>2 DEF EnterPath, AtPath, HostInv, InOrder, LoadingOpen, ExportsLive,
     Untouched, Kept, DroppedSteps, NotDropping
<1>3. CASE ReadDirFails
  BY <1>3, LoadedSlots DEF ReadDirFails, AtPath, HostInv, InOrder, LoadingOpen,
     ExportsLive, Untouched, Kept, DroppedSteps, NotDropping
<1>4. CASE LoadingDone
  BY <1>4 DEF LoadingDone, AllTried, HostInv, InOrder, LoadingOpen, ExportsLive,
     Untouched, Kept, DroppedSteps, NotDropping
<1>5. CASE OpenLibrary
  BY <1>5, OpenKeeps
<1>6. CASE GetLibrary
  <2>1. CASE Abandon /\ UNCHANGED exports
    BY <1>6, <2>1, AbandonKeeps DEF GetLibrary
  <2>2. CASE /\ stage' = "manifest"
             /\ root' = [root EXCEPT ![opened] = TRUE]
             /\ \E ps \in SUBSET Protocols :
                  exports' = [exports EXCEPT ![opened] = ps]
    <3>1. /\ phase = "loading" /\ opened = Len(loaded) + 1 /\ gone = 0
          /\ drop = 1 /\ handle[opened] = "open" /\ opened \in 1..Slots
      BY <1>6, LoadedSlots DEF GetLibrary, HostInv, LoadingOpen, NotDropping
    <3>2. /\ root'[opened]
          /\ \A s \in 1..Slots : s # opened => /\ root'[s] = root[s]
                                               /\ exports'[s] = exports[s]
      BY <2>2, <3>1 DEF HostTypeOK
    <3>3. UNCHANGED <<phase, at, left, opened, handle, module, loaded, gone, drop, plugin_paths>>
      BY <1>6 DEF GetLibrary
    <3>4. InOrder' /\ LoadingOpen' /\ ExportsLive'
      BY <2>2, <3>1, <3>2, <3>3 DEF HostInv, InOrder, LoadingOpen, ExportsLive
    <3>5. Untouched'
      BY <2>2, <3>1, <3>2, <3>3 DEF HostInv, Untouched
    <3>6. Kept' /\ DroppedSteps'
      BY <2>2, <3>1, <3>2, <3>3, LoadedSlots DEF HostInv, Kept, DroppedSteps
    <3>7. NotDropping'
      BY <2>2, <3>1, <3>3 DEF HostInv, NotDropping
    <3> QED
      BY <3>4, <3>5, <3>6, <3>7 DEF HostInv
  <2> QED
    BY <1>6, <2>1, <2>2 DEF GetLibrary
<1>7. CASE ValidateManifest
  <2>1. CASE Abandon
    BY <1>7, <2>1, AbandonKeeps DEF ValidateManifest
  <2>2. CASE stage' = "http" /\ UNCHANGED root
    BY <1>7, <2>2 DEF ValidateManifest, HostInv, InOrder, LoadingOpen,
       ExportsLive, Untouched, Kept, DroppedSteps, NotDropping
  <2> QED
    BY <1>7, <2>1, <2>2 DEF ValidateManifest
<1>8. CASE LoadNoFactory
  BY <1>8, BlockKeeps DEF LoadNoFactory
<1>9. CASE LoadModule
  <2>1. opened \in 1..Slots
    BY <1>9, LoadedSlots DEF LoadModule, HostInv, LoadingOpen, Protocols
  <2>2. /\ module'[opened][stage] = "live"
        /\ \A s \in 1..Slots, p \in Protocols :
             s # opened \/ p # stage => module'[s][p] = module[s][p]
    BY <1>9, <2>1 DEF LoadModule, HostTypeOK
  <2> QED
    BY <1>9, <2>2, BlockKeeps DEF LoadModule
<1>10. CASE LoadFails
  <2>1. stage # "idle"
    BY <1>10 DEF LoadFails, Protocols
  <2> QED
    BY <1>10, <2>1, AbandonKeeps DEF LoadFails
<1>11. CASE DropNext
  BY <1>11, DropKeeps
<1>12. CASE DropDone
  BY <1>12 DEF DropDone, Dropping, HostInv, InOrder, LoadingOpen, ExportsLive,
     Untouched, Kept, DroppedSteps, NotDropping
<1>13. CASE Release
  BY <1>13 DEF Release, HostInv, InOrder, LoadingOpen, ExportsLive,
     Untouched, Kept, DroppedSteps, NotDropping
<1>14. CASE EntryFails
  BY <1>14, LoadedSlots DEF EntryFails, HostInv, InOrder, LoadingOpen,
     ExportsLive, Untouched, Kept, DroppedSteps, NotDropping
<1>15. CASE CloseAbandoned
  BY <1>15, CloseKeeps
<1>16. CASE UNCHANGED hostVars
  BY <1>16 DEF hostVars, HostInv, InOrder, LoadingOpen, ExportsLive,
     Untouched, Kept, DroppedSteps, NotDropping
<1> QED
  BY <1>1, <1>2, <1>3, <1>4, <1>5, <1>6, <1>7, <1>8, <1>9, <1>10, <1>11,
     <1>12, <1>13, <1>14, <1>15, <1>16 DEF HostNext

\* The host starts with nothing open.
LEMMA HostStart ==
  ASSUME HostInit
  PROVE  HostTypeOK /\ HostInv
<1>1. plugin_paths \in Seq(Entries) /\ Slots \in Nat
  BY PluginHostAssumption DEF PluginHostAssumption, HostInit
<1>2. HostTypeOK
  BY <1>1, OrderFacts DEF HostInit, HostTypeOK, Stages
<1>3. HostInv
  BY <1>1 DEF HostInit, HostInv, InOrder, LoadingOpen, ExportsLive, Untouched,
     Kept, DroppedSteps, NotDropping
<1> QED
  BY <1>2, <1>3

\* The types and the inductive invariant hold in every reachable state of loading
\* and unloading.
THEOREM HostInvariance == HostSpec => [](HostTypeOK /\ HostInv)
<1>1. HostInit => HostTypeOK /\ HostInv
  BY HostStart
<1>2. HostTypeOK /\ HostInv /\ [HostNext]_hostVars => (HostTypeOK /\ HostInv)'
  BY HostTypeStep, HostInvStep
<1> QED
  BY <1>1, <1>2, PTL DEF HostSpec

\* load_plugins and LoadedPlugin keep every variable in its type.
THEOREM HostTypes == HostSpec => []HostTypeOK
<1> QED
  BY HostInvariance, PTL

\* The root module of a library is gone before the library is closed, on every
\* way out of LoadedPlugin::load and of its drop.
THEOREM RootGoesFirst == HostSpec => []NoRootAfterClose
<1>1. HostTypeOK /\ HostInv => NoRootAfterClose
  <2> SUFFICES ASSUME HostTypeOK, HostInv, NEW s \in 1..Slots,
                      handle[s] = "closed"
               PROVE  ~root[s]
    BY DEF NoRootAfterClose
  <2>1. /\ LoadingOpen /\ Untouched /\ Kept /\ DroppedSteps /\ NotDropping
    BY DEF HostInv
  <2>2. s \in Nat /\ opened \in Nat /\ Len(loaded) \in Nat /\ gone \in Nat
    BY LoadedSlots
  <2>3. CASE s <= Len(loaded)
    <3>1. s <= gone \/ s = gone + 1 \/ gone + 1 < s
      BY <2>2
    <3>2. gone + 1 < s => handle[s] = "open"
      BY <2>1, <2>2, <2>3 DEF Kept
    <3>3. s = gone + 1 => handle[s] = "open"
      BY <2>1, <2>2, <2>3 DEF DroppedSteps
    <3> QED
      BY <2>1, <2>2, <2>3, <3>1, <3>2, <3>3 DEF DroppedSteps
  <2>4. CASE s > opened
    BY <2>1, <2>4 DEF Untouched
  <2>5. CASE Len(loaded) < s /\ s <= opened
    <3>1. CASE phase \in {"failed", "unwinding"}
      BY <2>1, <2>2, <2>5, <3>1 DEF NotDropping
    <3>2. CASE phase \notin {"failed", "unwinding"}
      <4>1. s = opened /\ phase = "loading" /\ stage # "idle"
        BY <2>2, <2>5, <3>2 DEF HostTypeOK, HostInv, InOrder
      <4> QED
        BY <2>1, <4>1 DEF LoadingOpen
    <3> QED
      BY <3>1, <3>2
  <2> QED
    BY <2>2, <2>3, <2>4, <2>5
<1> QED
  BY <1>1, HostInvariance, PTL

\* A plugin that was loaded completely is unloaded only after the shutdown of all
\* its modules, whether the runtime ends or a later plugin fails to load.
THEOREM ShutDownFirst == HostSpec => []LoadedShutDownFirst
<1>1. HostTypeOK /\ HostInv => LoadedShutDownFirst
  <2> SUFFICES ASSUME HostTypeOK, HostInv, NEW s \in 1..Len(loaded),
                      handle[loaded[s]] = "closed", NEW p \in Protocols
               PROVE  module[loaded[s]][p] # "live"
    BY DEF LoadedShutDownFirst
  <2>1. /\ loaded[s] = s /\ s \in Nat /\ gone \in 0..Len(loaded)
        /\ Len(loaded) \in Nat
    BY LoadedSlots
  <2>2. Kept /\ DroppedSteps
    BY DEF HostInv
  <2>3. s <= gone
    BY <2>1, <2>2 DEF Kept, DroppedSteps
  <2> QED
    BY <2>1, <2>2, <2>3 DEF DroppedSteps
<1> QED
  BY <1>1, HostInvariance, PTL

\* A startup that failed and a run that returned have closed every library they
\* opened.
THEOREM AllClosed == HostSpec => []NothingLeftOpen
<1>1. HostTypeOK /\ HostInv => NothingLeftOpen
  <2> SUFFICES ASSUME HostTypeOK, HostInv, phase \in {"failed", "stopped"},
                      NEW s \in 1..Slots
               PROVE  handle[s] # "open"
    BY DEF NothingLeftOpen
  <2>1. /\ s \in Nat /\ gone = Len(loaded) /\ Len(loaded) \in Nat
        /\ opened \in Nat
    BY LoadedSlots DEF HostInv, NotDropping
  <2>2. CASE s <= Len(loaded)
    BY <2>1, <2>2 DEF HostInv, DroppedSteps
  <2>3. CASE s > opened
    BY <2>3 DEF HostInv, Untouched
  <2>4. CASE Len(loaded) < s /\ s <= opened
    BY <2>1, <2>4 DEF HostInv, InOrder, NotDropping
  <2> QED
    BY <2>1, <2>2, <2>3, <2>4
<1> QED
  BY <1>1, HostInvariance, PTL

\* No step goes past a directory that cannot be read and on with the load.
LEMMA PathsReadStep ==
  ASSUME HostTypeOK, HostInv, PathsRead, [HostNext]_hostVars
  PROVE  PathsRead'
<1>0. at \in Nat
  BY DEF HostTypeOK
<1>1. plugin_paths' = plugin_paths
  BY DEF HostNext, SkipPath, EnterPath, ReadDirFails, EntryFails,
     LoadingDone, OpenLibrary, GetLibrary, ValidateManifest, LoadNoFactory,
     LoadModule, LoadFails, CloseAbandoned, DropNext, DropDone, Release, hostVars
<1>2. CASE SkipPath \/ EnterPath
  <2>1. /\ at' = at + 1 /\ phase' = phase
        /\ plugin_paths[at + 1].kind # "unreadable"
    BY <1>2 DEF SkipPath, EnterPath, AtPath
  <2>2. \A i \in 1..at' : i \in 1..at \/ i = at + 1
    BY <1>0, <2>1
  <2> QED
    BY <1>1, <2>1, <2>2 DEF PathsRead
<1>3. CASE at' = at /\ (phase' \in {"loading", "built"} => phase \in {"loading", "built"})
  BY <1>1, <1>3 DEF PathsRead
<1>4. \/ SkipPath \/ EnterPath
      \/ at' = at /\ (phase' \in {"loading", "built"} => phase \in {"loading", "built"})
  <2>1. stage # "idle" => phase = "loading"
    BY DEF HostInv, LoadingOpen
  <2> QED
    BY <2>1 DEF HostNext, ReadDirFails, EntryFails, AtPath, LoadingDone,
       OpenLibrary, GetLibrary, ValidateManifest, LoadNoFactory, LoadModule,
       LoadFails, CloseAbandoned, BlockDone, Dropping, DropNext, DropDone,
       Release, hostVars
<1> QED
  BY <1>2, <1>3, <1>4

\* A runtime is built only when no path was unreadable and every library of every
\* path was loaded, in order; all are open with the modules they export initialised.
THEOREM BuiltComplete == HostSpec => []BuiltWithAllLoaded
<1>1. HostTypeOK /\ HostInv /\ PathsRead => BuiltWithAllLoaded
  <2> SUFFICES ASSUME HostTypeOK, HostInv, PathsRead, phase = "built"
               PROVE  /\ at = Len(plugin_paths) /\ left = 0
                      /\ \A i \in 1..Len(plugin_paths) :
                           plugin_paths[i].kind \in {"file", "dir", "missing"}
                      /\ loaded = [i \in 1..opened |-> i]
                      /\ \A s \in 1..opened :
                           /\ handle[s] = "open" /\ root[s]
                           /\ \A p \in exports[s] : module[s][p] = "live"
    BY DEF BuiltWithAllLoaded
  <2>1. /\ at = Len(plugin_paths) /\ left = 0 /\ gone = 0 /\ drop = 1
        /\ Len(loaded) = opened
    BY DEF HostInv, InOrder, NotDropping
  <2>2. loaded = [i \in 1..opened |-> i]
    BY <2>1 DEF HostTypeOK, HostInv, InOrder
  <2>3. \A s \in 1..opened : /\ handle[s] = "open" /\ root[s]
                             /\ \A p \in exports[s] : module[s][p] = "live"
    BY <2>1 DEF HostInv, Kept
  <2>4. ASSUME NEW i \in 1..Len(plugin_paths)
        PROVE  plugin_paths[i].kind \in {"file", "dir", "missing"}
    <3> DEFINE E == Entries
    <3>1. plugin_paths \in Seq(E)
      BY DEF HostTypeOK
    <3>2. plugin_paths[i] \in E
      <4> HIDE DEF E
      <4> QED
        BY <3>1
    <3>3. plugin_paths[i].kind \in Kinds
      BY <3>2 DEF Entries
    <3>4. plugin_paths[i].kind # "unreadable"
      BY <2>1 DEF PathsRead
    <3> QED
      BY <3>3, <3>4 DEF Kinds
  <2> QED
    BY <2>1, <2>2, <2>3, <2>4
<1>2. HostInit => PathsRead
  BY DEF HostInit, PathsRead
<1>3. HostTypeOK /\ HostInv /\ PathsRead /\ [HostNext]_hostVars => PathsRead'
  BY PathsReadStep
<1> QED
  BY <1>1, <1>2, <1>3, HostInvariance, PTL DEF HostSpec

\* No step gives a library a module it does not export, or one before its root
\* module was found.
LEMMA OnlyExportedStep ==
  ASSUME HostTypeOK, HostInv, OnlyExported, [HostNext]_hostVars
  PROVE  OnlyExported'
<1> SUFFICES ASSUME NEW s \in 1..Slots, NEW p \in Protocols,
                    module'[s][p] # "none"
             PROVE  p \in exports'[s] /\ s <= opened' /\ (stage' = "symbol" => s # opened')
  BY DEF OnlyExported
<1>1. Slots \in Nat /\ opened \in 0..Slots /\ s \in Nat
  BY LoadedSlots
<1>2. module[s][p] # "none" =>
        p \in exports[s] /\ s <= opened /\ (stage = "symbol" => s # opened)
  BY DEF OnlyExported
<1>3. CASE OpenLibrary
  <2>1. UNCHANGED <<module, exports>>
    BY <1>3 DEF OpenLibrary
  <2>2. \/ opened' = opened + 1
        \/ opened' = opened /\ stage' = stage
    BY <1>3 DEF OpenLibrary
  <2> QED
    BY <1>1, <1>2, <2>1, <2>2
<1>4. CASE GetLibrary
  <2>1. /\ s <= opened /\ s # opened /\ p \in exports[s]
        /\ opened' = opened /\ stage' # "symbol"
    BY <1>2, <1>4 DEF GetLibrary, Abandon
  <2>2. exports'[s] = exports[s]
    BY <1>4, <2>1 DEF GetLibrary, HostTypeOK
  <2> QED
    BY <2>1, <2>2
<1>5. CASE LoadModule
  <2>1. /\ stage \in exports[opened] /\ opened \in 1..Slots
        /\ UNCHANGED <<opened, exports>>
    BY <1>5, LoadedSlots DEF LoadModule, HostInv, LoadingOpen, Protocols
  <2>2. stage' # "symbol" /\ stage # "symbol"
    BY <1>5, StageFacts DEF LoadModule, BlockDone, Protocols
  <2>3. s # opened \/ p # stage => module'[s][p] = module[s][p]
    BY <1>5, <2>1 DEF LoadModule, HostTypeOK
  <2> QED
    BY <1>1, <1>2, <2>1, <2>2, <2>3
<1>6. CASE LoadNoFactory
  <2>1. stage' # "symbol" /\ stage # "symbol"
    BY <1>6, StageFacts DEF LoadNoFactory, BlockDone, Protocols
  <2> QED
    BY <1>2, <1>6, <2>1 DEF LoadNoFactory
<1>7. CASE DropNext
  <2>1. /\ gone + 1 \in 1..Slots
        /\ UNCHANGED <<opened, exports, stage>>
    BY <1>7, DropNextEffect
  <2>2. module'[s][p] # "none" => module[s][p] # "none"
    BY <1>7, <2>1, DropNextEffect DEF DropNext, HostTypeOK
  <2> QED
    BY <1>2, <2>1, <2>2
<1>8. CASE ValidateManifest
  BY <1>2, <1>8 DEF ValidateManifest, Abandon
<1>9. CASE LoadFails
  BY <1>2, <1>9 DEF LoadFails, Abandon
<1>10. CASE \/ SkipPath \/ EnterPath \/ ReadDirFails \/ EntryFails \/ LoadingDone
            \/ CloseAbandoned \/ DropDone \/ Release \/ UNCHANGED hostVars
  BY <1>2, <1>10 DEF SkipPath, EnterPath, ReadDirFails, EntryFails, LoadingDone,
     AtPath, CloseAbandoned, DropDone, Release, hostVars
<1> QED
  BY <1>3, <1>4, <1>5, <1>6, <1>7, <1>8, <1>9, <1>10 DEF HostNext

\* A plugin never has a module for a protocol its library does not export, and
\* none while the host still looks for its root module.
THEOREM ModulesExported == HostSpec => []OnlyExported
<1>1. HostInit => OnlyExported
  BY DEF HostInit, OnlyExported
<1>2. HostTypeOK /\ HostInv /\ OnlyExported /\ [HostNext]_hostVars => OnlyExported'
  BY OnlyExportedStep
<1> QED
  BY <1>1, <1>2, HostInvariance, PTL DEF HostSpec

\* The steps a teardown has left: five for each plugin, and the end of it.
StepsLeft == IF phase \in Dropping THEN 5 * (Len(loaded) - gone) + 2 - drop ELSE 0

\* The count is of type Nat, and zero only when nothing is being torn down.
LEMMA StepsLeftType ==
  ASSUME HostTypeOK, HostInv
  PROVE  /\ StepsLeft \in Nat /\ Len(loaded) \in Nat
         /\ phase \in Dropping <=> StepsLeft # 0
<1>1. /\ Len(loaded) \in Nat /\ gone \in 0..Len(loaded) /\ drop \in 1..5
      /\ gone = Len(loaded) => drop = 1
  BY OrderFacts DEF HostTypeOK, HostInv, NotDropping
<1>2. CASE gone = Len(loaded)
  BY <1>1, <1>2 DEF StepsLeft
<1>3. CASE gone < Len(loaded)
  <2>1. Len(loaded) - gone \in Nat /\ Len(loaded) - gone >= 1
    BY <1>1, <1>3
  <2>2. 5 * (Len(loaded) - gone) + 2 - drop \in Nat \ {0}
    BY <1>1, <2>1
  <2> QED
    BY <1>1, <2>2 DEF StepsLeft
<1> QED
  BY <1>1, <1>2, <1>3

\* Every step in a teardown is one of it and brings its end nearer.
LEMMA TeardownStep ==
  ASSUME HostTypeOK, HostInv, HostNext, phase \in Dropping
  PROVE  StepsLeft' = StepsLeft - 1
<1>1. /\ Len(loaded) \in Nat /\ gone \in 0..Len(loaded) /\ drop \in 1..5
      /\ gone = Len(loaded) => drop = 1
      /\ Len(DropOrder) = 5
  BY OrderFacts DEF HostTypeOK, HostInv, NotDropping
<1>2. stage = "idle" /\ phase \notin {"loading", "built"}
  BY DEF HostInv, LoadingOpen, Dropping
<1>3. DropNext \/ DropDone
  BY <1>2 DEF HostNext, SkipPath, EnterPath, ReadDirFails, EntryFails, AtPath,
     LoadingDone, OpenLibrary, GetLibrary, ValidateManifest, LoadNoFactory,
     LoadModule, LoadFails, CloseAbandoned, Release, Protocols
<1>4. CASE DropNext
  <2>1. /\ phase' = phase /\ loaded' = loaded
        /\ drop = 5 => drop' = 1 /\ gone' = gone + 1
        /\ drop # 5 => drop' = drop + 1 /\ gone' = gone
    BY <1>1, <1>4 DEF DropNext
  <2>2. StepsLeft' = 5 * (Len(loaded) - gone') + 2 - drop'
    BY <2>1 DEF StepsLeft
  <2>3. CASE drop = 5
    <3>1. 5 * (Len(loaded) - (gone + 1)) + 2 - 1 = 5 * (Len(loaded) - gone) + 2 - 5 - 1
      BY <1>1
    <3>2. StepsLeft' = 5 * (Len(loaded) - (gone + 1)) + 2 - 1
      BY <2>1, <2>2, <2>3
    <3>3. StepsLeft = 5 * (Len(loaded) - gone) + 2 - 5
      BY <2>3 DEF StepsLeft
    <3> QED
      BY <1>1, <3>1, <3>2, <3>3
  <2>4. CASE drop # 5
    BY <1>1, <2>1, <2>2, <2>4 DEF StepsLeft
  <2> QED
    BY <2>3, <2>4
<1>5. CASE DropDone
  <2>1. phase' \notin Dropping
    BY <1>5 DEF DropDone, Dropping
  <2>2. gone = Len(loaded) /\ drop = 1
    BY <1>1, <1>5 DEF DropDone
  <2> QED
    BY <1>1, <2>1, <2>2 DEF StepsLeft
<1> QED
  BY <1>3, <1>4, <1>5

\* A step in a teardown is one of it; the end of one is the end of the host.
TeardownGoesOn == phase \in Dropping => StepsLeft' = StepsLeft - 1
EndIsFinal == phase \in {"failed", "stopped"} => UNCHANGED hostVars

\* A teardown cannot be entered again, stall half way or go on for ever: five steps
\* per plugin and one more lead out of it, and nothing else happens in the host
\* meanwhile. With the main thread's fairness this is why it completes.
THEOREM TeardownIsFinite ==
  HostSpec => /\ [](StepsLeft \in Nat /\ (phase \in Dropping <=> StepsLeft # 0))
              /\ [][TeardownGoesOn]_hostVars
              /\ [][EndIsFinal]_hostVars
<1>1. HostTypeOK /\ HostInv
      => StepsLeft \in Nat /\ (phase \in Dropping <=> StepsLeft # 0)
  BY StepsLeftType
<1>2. HostTypeOK /\ HostInv /\ [HostNext]_hostVars
      => [TeardownGoesOn]_hostVars
  BY TeardownStep DEF TeardownGoesOn
<1>3. HostTypeOK /\ HostInv /\ [HostNext]_hostVars
      => [EndIsFinal]_hostVars
  <2> SUFFICES ASSUME HostTypeOK, HostInv, HostNext, phase \in {"failed", "stopped"}
               PROVE  FALSE
    BY DEF EndIsFinal
  <2>1. stage = "idle" /\ phase \notin Dropping \cup {"loading", "built"}
    BY DEF HostInv, LoadingOpen, Dropping
  <2> QED
    BY <2>1 DEF HostNext, SkipPath, EnterPath, ReadDirFails, EntryFails, AtPath,
       LoadingDone, OpenLibrary, GetLibrary, ValidateManifest, LoadNoFactory,
       LoadModule, LoadFails, CloseAbandoned, DropNext, DropDone, Release,
       Protocols
<1> QED
  BY <1>1, <1>2, <1>3, HostInvariance, PTL DEF HostSpec
=============================================================================

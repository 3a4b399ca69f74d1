----------------------------- MODULE FirmwareProofs -----------------------------
(***************************************************************************)
(* Theorems about Firmware: what the settings promise, whatever numbers    *)
(* the flags give to whatever settings, and start-up for every image that  *)
(* cargo can link.                                                         *)
(***************************************************************************)
EXTENDS Firmware, StartupProofs, FiniteSetTheorems

--------------------------------------------------------------------------------
(***************************************************************************)
(* Settings over settings.                                                 *)
(***************************************************************************)
LEMMA OverDomain ==
  ASSUME NEW f, NEW g
  PROVE  DOMAIN Over(f, g) = DOMAIN f \cup DOMAIN g
BY DEF Over

LEMMA OverHit ==
  ASSUME NEW f, NEW g, NEW s \in DOMAIN f
  PROVE  Over(f, g)[s] = f[s]
BY DEF Over

LEMMA OverMiss ==
  ASSUME NEW f, NEW g, NEW s \in DOMAIN g, s \notin DOMAIN f
  PROVE  Over(f, g)[s] = g[s]
BY DEF Over

\* What the header keeps of the flags it is given.
KeptOf(flags) == [s \in DOMAIN flags \ Removed |-> flags[s]]

\* What the computed defaults are computed from.
Plain(flags) == Over(KeptOf(flags), Literals)

LEMMA KeptDomain ==
  ASSUME NEW flags
  PROVE  DOMAIN KeptOf(flags) = DOMAIN flags \ Removed
BY DEF KeptOf

\* The three sources of a setting's value, in their order.
LEMMA ValuesOver ==
  ASSUME NEW flags
  PROVE  Values(flags) = Over(KeptOf(flags), Over(Literals, Computed(Plain(flags))))
BY DEF Values, KeptOf, Plain

LEMMA ThenLiteral ==
  ASSUME NEW flags, NEW s \in DOMAIN Literals, s \notin DOMAIN flags \ Removed
  PROVE  Values(flags)[s] = Literals[s]
<1> DEFINE rest == Over(Literals, Computed(Plain(flags)))
<1>1. s \notin DOMAIN KeptOf(flags)
  BY KeptDomain
<1>2. s \in DOMAIN rest /\ rest[s] = Literals[s]
  BY OverHit, OverDomain
<1> HIDE DEF rest
<1>3. Over(KeptOf(flags), rest)[s] = rest[s]
  BY <1>1, <1>2, OverMiss
<1> QED BY <1>2, <1>3, ValuesOver DEF rest

--------------------------------------------------------------------------------
(***************************************************************************)
(* The defaults that the theorems are about.                               *)
(***************************************************************************)
AllVariants ==
  Choices["MCU_ACCESS_PORT_PROTECTION"] \cup Choices["MCU_HFCLK_SOURCE"]
  \cup Choices["MCU_LFCLK_SOURCE"] \cup Choices["MCU_TARGET"]
  \cup Choices["BLE_TRANSPORT_HS"] \cup Choices["BLE_TRANSPORT_LL"]

LinkLayerNames == {LinkLayerName[s] : s \in DOMAIN LinkLayerName}

Clock == {"TIMER_5", "OS_CPUTIME_TIMER_NUM", "OS_CPUTIME_FREQ"}

Asked == DOMAIN Choices \cup AllVariants \cup DOMAIN LinkLayerName \cup LinkLayerNames \cup Clock

\* Those whose default is 1.
Ones == {
  "TIMER_5", "MCU_ACCESS_PORT_PROTECTION", "MCU_ACCESS_PORT_PROTECTION__disable", "MCU_TARGET",
  "MCU_TARGET__nRF52840", "BLE_TRANSPORT_HS", "BLE_TRANSPORT_HS__custom", "BLE_TRANSPORT_LL",
  "BLE_TRANSPORT_LL__native", "BLE_EXT_ADV", "BLE_LL_CFG_FEAT_LL_EXT_ADV", "BLE_HCI_VS",
  "BLE_LL_HCI_VS", "BLE_ROLE_BROADCASTER", "BLE_LL_ROLE_BROADCASTER", "BLE_ROLE_CENTRAL",
  "BLE_LL_ROLE_CENTRAL", "BLE_ROLE_OBSERVER", "BLE_LL_ROLE_OBSERVER", "BLE_ROLE_PERIPHERAL",
  "BLE_LL_ROLE_PERIPHERAL"}

Default(s) ==
  IF s \in Ones THEN 1
  ELSE IF s = "OS_CPUTIME_TIMER_NUM" THEN 5
  ELSE IF s = "OS_CPUTIME_FREQ" THEN 32768
  ELSE 0

\* f has the defaults that are asked for, as far as it gives them.
Defaults(f) == \A s \in Asked : s \in DOMAIN f => f[s] = Default(s)

LEMMA DefaultsOver ==
  ASSUME NEW f, NEW g, Defaults(f), Defaults(g)
  PROVE  Defaults(Over(f, g))
<1> SUFFICES ASSUME NEW s \in Asked, s \in DOMAIN Over(f, g)
             PROVE  Over(f, g)[s] = Default(s)
  BY DEF Defaults
<1>1. CASE s \in DOMAIN f
  BY <1>1, OverHit DEF Defaults
<1>2. CASE s \in DOMAIN g /\ s \notin DOMAIN f
  BY <1>2, OverMiss DEF Defaults
<1> QED BY <1>1, <1>2, OverDomain

LEMMA DefaultsOfSections ==
  /\ Defaults(BoardSettings) /\ Defaults(McuSettings) /\ Defaults(BusSettings)
  /\ Defaults(KernelSettings) /\ Defaults(TaskSettings) /\ Defaults(BleSettings)
  /\ Defaults(LlFeatureSettings) /\ Defaults(LlConnSettings) /\ Defaults(LlRadioSettings)
  /\ Defaults(PhySettings) /\ Defaults(AttSettings) /\ Defaults(HsSettings)
  /\ Defaults(SvcSettings) /\ Defaults(TransportSettings)
<1> USE DEF Defaults, Default, Ones, Asked, AllVariants, Choices, LinkLayerNames, LinkLayerName,
            Clock, Section
<1>1. Defaults(BoardSettings)
  BY DEF BoardSettings
<1>2. Defaults(McuSettings)
  BY DEF McuSettings
<1>3. Defaults(BusSettings)
  BY DEF BusSettings
<1>4. Defaults(KernelSettings)
  BY DEF KernelSettings
<1>5. Defaults(TaskSettings)
  BY DEF TaskSettings
<1>6. Defaults(BleSettings)
  BY DEF BleSettings
<1>7. Defaults(LlFeatureSettings)
  BY DEF LlFeatureSettings
<1>8. Defaults(LlConnSettings)
  BY DEF LlConnSettings
<1>9. Defaults(LlRadioSettings)
  BY DEF LlRadioSettings
<1>10. Defaults(PhySettings)
  BY DEF PhySettings
<1>11. Defaults(AttSettings)
  BY DEF AttSettings
<1>12. Defaults(HsSettings)
  BY DEF HsSettings
<1>13. Defaults(SvcSettings)
  BY DEF SvcSettings
<1>14. Defaults(TransportSettings)
  BY DEF TransportSettings
<1> HIDE DEF Defaults
<1> QED
  BY <1>1, <1>2, <1>3, <1>4, <1>5, <1>6, <1>7, <1>8, <1>9, <1>10, <1>11, <1>12, <1>13, <1>14

LEMMA DefaultsOfLiterals == Defaults(Literals)
<1>1. Defaults(Hardware) /\ Defaults(Kernel) /\ Defaults(LinkLayer) /\ Defaults(Host)
  BY DefaultsOfSections, DefaultsOver DEF Hardware, Kernel, LinkLayer, Host
<1>2. Defaults(Over(LinkLayer, Over(Host, TransportSettings)))
  BY <1>1, DefaultsOfSections, DefaultsOver
<1> QED BY <1>1, <1>2, DefaultsOfSections, DefaultsOver DEF Literals, Sections

\* The header has every setting of its sections.
LEMMA SectionsAreIn ==
  /\ DOMAIN BoardSettings \subseteq DOMAIN Literals /\ DOMAIN McuSettings \subseteq DOMAIN Literals
  /\ DOMAIN BusSettings \subseteq DOMAIN Literals /\ DOMAIN KernelSettings \subseteq DOMAIN Literals
  /\ DOMAIN BleSettings \subseteq DOMAIN Literals
  /\ DOMAIN LlFeatureSettings \subseteq DOMAIN Literals
  /\ DOMAIN LlConnSettings \subseteq DOMAIN Literals
  /\ DOMAIN LlRadioSettings \subseteq DOMAIN Literals
  /\ DOMAIN TransportSettings \subseteq DOMAIN Literals
<1>1. \A f, g : DOMAIN f \subseteq DOMAIN Over(f, g) /\ DOMAIN g \subseteq DOMAIN Over(f, g)
  BY OverDomain
<1>2. DOMAIN BoardSettings \cup DOMAIN McuSettings \cup DOMAIN BusSettings \subseteq DOMAIN Hardware
  BY <1>1 DEF Hardware
<1>3. DOMAIN KernelSettings \subseteq DOMAIN Kernel
  BY <1>1 DEF Kernel
<1>4. DOMAIN LlFeatureSettings \cup DOMAIN LlConnSettings \cup DOMAIN LlRadioSettings
        \subseteq DOMAIN LinkLayer
  BY <1>1 DEF LinkLayer
<1>5. DOMAIN Hardware \cup DOMAIN Kernel \cup DOMAIN BleSettings \subseteq DOMAIN Literals
  BY <1>1 DEF Literals, Sections
<1>6. DOMAIN LinkLayer \cup DOMAIN TransportSettings \subseteq DOMAIN Literals
  <2>1. DOMAIN LinkLayer \cup DOMAIN TransportSettings
          \subseteq DOMAIN Over(LinkLayer, Over(Host, TransportSettings))
    BY <1>1
  <2> QED BY <1>1, <2>1 DEF Literals, Sections
<1> QED BY <1>2, <1>3, <1>4, <1>5, <1>6

\* Every setting asked for has a number.
LEMMA AskedAreLiterals == Asked \subseteq DOMAIN Literals
<1> USE DEF Section
<1>1. {"MCU_ACCESS_PORT_PROTECTION"} \cup Choices["MCU_ACCESS_PORT_PROTECTION"]
        \subseteq DOMAIN BoardSettings
  BY DEF BoardSettings, Choices
<1>2. {"MCU_HFCLK_SOURCE", "MCU_LFCLK_SOURCE", "MCU_TARGET"} \cup Choices["MCU_HFCLK_SOURCE"]
        \cup Choices["MCU_LFCLK_SOURCE"] \cup Choices["MCU_TARGET"] \subseteq DOMAIN McuSettings
  BY DEF McuSettings, Choices
<1>3. {"BLE_TRANSPORT_HS", "BLE_TRANSPORT_LL"} \cup Choices["BLE_TRANSPORT_HS"]
        \cup Choices["BLE_TRANSPORT_LL"] \subseteq DOMAIN TransportSettings
  BY DEF TransportSettings, Choices
<1>4. Clock \subseteq DOMAIN BusSettings \cup DOMAIN KernelSettings
  BY DEF Clock, BusSettings, KernelSettings
<1>5. DOMAIN LinkLayerName \subseteq DOMAIN BleSettings
  BY DEF BleSettings, LinkLayerName
<1>6. LinkLayerNames
        \subseteq DOMAIN LlFeatureSettings \cup DOMAIN LlConnSettings \cup DOMAIN LlRadioSettings
  BY DEF LlFeatureSettings, LlConnSettings, LlRadioSettings, LinkLayerNames, LinkLayerName
<1> HIDE DEF Section
<1>7. DOMAIN Choices = {"MCU_ACCESS_PORT_PROTECTION", "MCU_HFCLK_SOURCE", "MCU_LFCLK_SOURCE",
                         "MCU_TARGET", "BLE_TRANSPORT_HS", "BLE_TRANSPORT_LL"}
  BY DEF Choices
<1> QED
  BY <1>1, <1>2, <1>3, <1>4, <1>5, <1>6, <1>7, SectionsAreIn DEF Asked, AllVariants

\* A setting that no flag gives has its default.
LEMMA AskedDefault ==
  ASSUME NEW flags, NEW s \in Asked, s \notin DOMAIN flags \ Removed
  PROVE  Values(flags)[s] = Default(s)
BY AskedAreLiterals, DefaultsOfLiterals, ThenLiteral DEF Defaults

--------------------------------------------------------------------------------
(***************************************************************************)
(* The settings.                                                           *)
(***************************************************************************)
\* A feature is on for host and link layer both or off for both, unless a flag gives
\* one of the two (syscfg.h:1085 and 1273).
THEOREM FeaturesAgree == FirmwareSpec => []HostAndLinkLayerAgree
<1>1. HostAndLinkLayerAgree
  <2> SUFFICES ASSUME NEW c \in Compiler, NEW s \in DOMAIN LinkLayerName,
                      {s, LinkLayerName[s]} \cap Kept(c) = {}
               PROVE  Values(given[c])[s] = Values(given[c])[LinkLayerName[s]]
    BY DEF HostAndLinkLayerAgree
  <2>1. s \in Asked /\ LinkLayerName[s] \in Asked
    BY DEF Asked, LinkLayerNames
  <2>2. Default(s) = Default(LinkLayerName[s])
    BY DEF Default, Ones, LinkLayerName
  <2> QED BY <2>1, <2>2, AskedDefault DEF Kept
<1> QED BY <1>1, PTL

\* A choice selects exactly one of its variants, unless a flag gives one of them
\* (syscfg.h:2175-2225).
THEOREM VariantsExclude == FirmwareSpec => []OneVariant
<1>1. ASSUME NEW choice \in DOMAIN Choices
      PROVE  \/ Default(choice) = 0 /\ {s \in Choices[choice] : Default(s) = 1} = {}
             \/ /\ Default(choice) = 1
                /\ \E x : {s \in Choices[choice] : Default(s) = 1} = {x}
  <2>1. CASE choice \in {"MCU_HFCLK_SOURCE", "MCU_LFCLK_SOURCE"}
    BY <2>1 DEF Default, Ones, Choices
  <2>2. CASE choice = "MCU_ACCESS_PORT_PROTECTION"
    <3>1. {s \in Choices[choice] : Default(s) = 1} = {"MCU_ACCESS_PORT_PROTECTION__disable"}
      BY <2>2 DEF Default, Ones, Choices
    <3> QED BY <2>2, <3>1 DEF Default, Ones
  <2>3. CASE choice = "MCU_TARGET"
    <3>1. {s \in Choices[choice] : Default(s) = 1} = {"MCU_TARGET__nRF52840"}
      BY <2>3 DEF Default, Ones, Choices
    <3> QED BY <2>3, <3>1 DEF Default, Ones
  <2>4. CASE choice = "BLE_TRANSPORT_HS"
    <3>1. {s \in Choices[choice] : Default(s) = 1} = {"BLE_TRANSPORT_HS__custom"}
      BY <2>4 DEF Default, Ones, Choices
    <3> QED BY <2>4, <3>1 DEF Default, Ones
  <2>5. CASE choice = "BLE_TRANSPORT_LL"
    <3>1. {s \in Choices[choice] : Default(s) = 1} = {"BLE_TRANSPORT_LL__native"}
      BY <2>5 DEF Default, Ones, Choices
    <3> QED BY <2>5, <3>1 DEF Default, Ones
  <2> QED BY <2>1, <2>2, <2>3, <2>4, <2>5 DEF Choices
<1>2. OneVariant
  <2> SUFFICES ASSUME NEW c \in Compiler, NEW choice \in DOMAIN Choices,
                      ({choice} \cup Choices[choice]) \cap Kept(c) = {}
               PROVE  Cardinality({s \in Choices[choice] : Values(given[c])[s] = 1})
                        = Values(given[c])[choice]
    BY DEF OneVariant
  <2>1. Choices[choice] \subseteq Asked /\ choice \in Asked
    BY DEF Asked, AllVariants, Choices
  <2>2. /\ Values(given[c])[choice] = Default(choice)
        /\ \A s \in Choices[choice] : Values(given[c])[s] = Default(s)
    BY <2>1, AskedDefault DEF Kept
  <2>3. {s \in Choices[choice] : Values(given[c])[s] = 1}
          = {s \in Choices[choice] : Default(s) = 1}
    BY <2>2
  <2>4. CASE Default(choice) = 0 /\ {s \in Choices[choice] : Default(s) = 1} = {}
    BY <2>2, <2>3, <2>4, FS_EmptySet
  <2>5. CASE Default(choice) = 1 /\ \E x : {s \in Choices[choice] : Default(s) = 1} = {x}
    BY <2>2, <2>3, <2>5, FS_Singleton
  <2> QED BY <1>1, <2>4, <2>5
<1> QED BY <1>2, PTL

\* The timer that initialize_nimble starts is the one that the C code counts on, at its
\* frequency, unless a flag says otherwise (lib.rs:51-52).
THEOREM ClocksAgree == FirmwareSpec => []ClockAgrees
<1>1. ClockAgrees
  <2> SUFFICES ASSUME Clock \cap Kept("cc") = {}
               PROVE  /\ HasTimer(Values(given["cc"]))
                      /\ Values(given["cc"])["OS_CPUTIME_TIMER_NUM"] = 5
                      /\ Values(given["cc"])["OS_CPUTIME_FREQ"] = 32768
    BY DEF ClockAgrees, Clock
  <2>1. \A s \in Clock : Values(given["cc"])[s] = Default(s)
    BY AskedDefault DEF Asked, Kept
  <2> QED BY <2>1 DEF Clock, Default, Ones, HasTimer
<1> QED BY <1>1, PTL
--------------------------------------------------------------------------------
(***************************************************************************)
(* Start-up, for every image that is linked.                               *)
(***************************************************************************)
\* Until an image is linked nothing runs.
FirmwareInv ==
  /\ IInv
  /\ stage # "linked" => Reset

LEMMA FirmwareInvAlways == FirmwareSpec => []FirmwareInv
<1>1. FirmwareInit => FirmwareInv
  <2> SUFFICES ASSUME FirmwareInit PROVE FirmwareInv
    OBVIOUS
  <2>1. Init
    BY DEF FirmwareInit, BuildInit, Init, Image
  <2> QED BY <2>1, IInit DEF FirmwareInit, FirmwareInv
<1>2. FirmwareInv /\ [FirmwareNext]_<<stage, given, vars>> => FirmwareInv'
  <2> SUFFICES ASSUME FirmwareInv, [FirmwareNext]_<<stage, given, vars>> PROVE FirmwareInv'
    OBVIOUS
  <2>1. CASE stage = "linked" /\ Next /\ UNCHANGED <<stage, given>>
    BY <2>1, IStep DEF FirmwareInv
  <2>2. CASE BuildNext /\ UNCHANGED <<initVars, poolVars, runVars, panic>>
    <3>1. stage = "flags" /\ Reset
      BY <2>2 DEF FirmwareInv, BuildNext, Flag, Cargo
    <3>2. Reset'
      BY <2>2, <3>1 DEF Reset, initVars, poolVars, runVars
    <3>3. image' \in Image
      <4>1. image \in Image
        BY DEF FirmwareInv, IInv, TypeOK
      <4>2. ASSUME Cargo PROVE image' \in Image
        <5>1. HasTimer(Values(given["cc"])) \in BOOLEAN
          BY DEF HasTimer
        <5>2. CASE UNCHANGED image
          BY <4>1, <5>2
        <5>3. CASE \E features \in SUBSET Feature :
                     image' = [controller |-> "controller" \in features,
                               host |-> "host" \in features,
                               clock |-> HasTimer(Values(given["cc"]))]
          <6> PICK features \in SUBSET Feature :
                     image' = [controller |-> "controller" \in features,
                               host |-> "host" \in features,
                               clock |-> HasTimer(Values(given["cc"]))]
            BY <5>3
          <6>1. ("controller" \in features) \in BOOLEAN /\ ("host" \in features) \in BOOLEAN
            OBVIOUS
          <6> QED BY <5>1, <6>1 DEF Image
        <5> QED BY <4>2, <5>2, <5>3 DEF Cargo
      <4>3. ASSUME NEW s \in Given, NEW x \in GivenValue, NEW to \in SUBSET Compiler,
                   Flag(s, x, to)
            PROVE  image' \in Image
        BY <4>1, <4>3 DEF Flag
      <4> QED BY <2>2, <4>2, <4>3 DEF BuildNext
    <3>4. Init'
      BY <3>2, <3>3 DEF Init
    <3>5. IInv'
      BY <3>4, IInit, PTL
    <3> QED BY <3>2, <3>5 DEF FirmwareInv
  <2>3. CASE UNCHANGED <<stage, given, vars>>
    <3>1. IInv'
      BY <2>3, IStep DEF FirmwareInv
    <3>2. Reset' <=> Reset
      BY <2>3 DEF Reset, vars, initVars, poolVars, runVars
    <3> QED BY <2>3, <3>1, <3>2 DEF FirmwareInv
  <2> QED BY <2>1, <2>2, <2>3 DEF FirmwareNext
<1> QED BY <1>1, <1>2, PTL DEF FirmwareSpec

\* Start-up of whatever has been built keeps its types (embassy.rs:61-68).
THEOREM FirmwareTypeCorrect == FirmwareSpec => []TypeOK
<1>1. FirmwareInv => TypeOK
  BY DEF FirmwareInv, IInv
<1> QED BY <1>1, FirmwareInvAlways, PTL

\* In every image that links no two queues share a channel and none is lost
\* (embassy.rs:61-68).
THEOREM FirmwarePoolOwned == FirmwareSpec => []ChannelsOwned
<1>1. FirmwareInv => ChannelsOwned
  BY InvOwned DEF FirmwareInv
<1> QED BY <1>1, FirmwareInvAlways, PTL

\* In every image that links nobody follows the null pointer of a queue that is not
\* initialised (lib.rs:30-54).
THEOREM FirmwareQueuesReady == FirmwareSpec => []QueueReady
<1>1. FirmwareInv => QueueReady
  BY DEF FirmwareInv, IInv, Ready
<1> QED BY <1>1, FirmwareInvAlways, PTL
================================================================================

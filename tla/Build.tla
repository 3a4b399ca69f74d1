---------------------------------- MODULE Build ----------------------------------
(***************************************************************************)
(* How cargo makes an image of the two crates.                             *)
(*                                                                         *)
(* syscfg.h is read twice: by the C compiler, for NimBLE                   *)
(* (apache-nimble/build.rs), and by bindgen, for the constants the Rust    *)
(* code uses (apache-nimble-sys/build.rs).  The two take -D flags from     *)
(* different places of the environment, CFLAGS and                         *)
(* BINDGEN_EXTRA_CLANG_ARGS, so a setting can be given to both or to one.  *)
(***************************************************************************)
EXTENDS SysCfg, FiniteSets

CONSTANTS
  Given,       \* settings a flag may give
  GivenValue,  \* the numbers it may give them
  MaxFlags     \* bound on the settings that are given

Compiler == {"cc", "bindgen"}

Feature == {"nrf52840", "port-layer-embassy", "controller", "host"}

VARIABLES
  stage,   \* "flags", "failed" or "linked"
  given,   \* what each compiler's flags give
  image    \* what start-up depends on, once linked

NoFlags == [c \in Compiler |-> <<>>]

BuildInit ==
  /\ stage = "flags"
  /\ given = NoFlags
  /\ image = [controller |-> FALSE, host |-> FALSE, clock |-> FALSE]

\* The environment gives a setting to some of the compilers; what it gives last
\* counts.
Flag(s, x, to) ==
  /\ stage = "flags" /\ Cardinality(UNION {DOMAIN given[c] : c \in Compiler}) < MaxFlags
  /\ given' = [c \in Compiler |->
                 IF c \in to THEN Over([t \in {s} |-> x], given[c]) ELSE given[c]]
  /\ UNCHANGED <<stage, image>>

\* Some chip and the one port layer are chosen.
HasChip(features)      == "nrf52840" \in features
HasPortLayer(features) == "port-layer-embassy" \in features

\* The transmit power is u32::min of two constants; bindgen makes a negative one
\* an i32.
PowerCompiles(rust) ==
  rust["BLE_LL_TX_PWR_DBM"] >= 0 /\ rust["BLE_LL_TX_PWR_MAX_DBM"] >= 0

\* The timer that initialize_nimble starts is compiled.
HasTimer(cc) == cc["TIMER_5"] # 0

Builds(features, rust) ==
  /\ HasChip(features) /\ HasPortLayer(features)
  /\ "controller" \in features => PowerCompiles(rust)

\* cargo build.  The image forgets the flags.
Cargo ==
  /\ stage = "flags"
  /\ LET cc   == Values(given["cc"])
         rust == Values(given["bindgen"])
     IN  \E features \in SUBSET Feature :
           /\ features \cap {"controller", "host"} # {}
           /\ \/ /\ ~Builds(features, rust)
                 /\ stage' = "failed" /\ UNCHANGED image
              \/ /\ Builds(features, rust)
                 /\ stage' = "linked"
                 /\ image' = [controller |-> "controller" \in features,
                              host |-> "host" \in features,
                              clock |-> HasTimer(cc)]
  /\ given' = NoFlags

BuildNext ==
  \/ \E s \in Given, x \in GivenValue, to \in SUBSET Compiler : Flag(s, x, to)
  \/ Cargo
--------------------------------------------------------------------------------
\* Flags are forgotten when cargo has run, so the properties of settings are about
\* what comes before.
Configured == stage = "flags"

\* What compiler c's flags give, of what the header keeps.
Kept(c) == DOMAIN given[c] \ Removed

\* The link layer's name of what the host calls otherwise.
LinkLayerName == [
    BLE_EXT_ADV |-> "BLE_LL_CFG_FEAT_LL_EXT_ADV",
    BLE_PERIODIC_ADV |-> "BLE_LL_CFG_FEAT_LL_PERIODIC_ADV",
    BLE_PERIODIC_ADV_SYNC_TRANSFER |-> "BLE_LL_CFG_FEAT_LL_PERIODIC_ADV_SYNC_TRANSFER",
    BLE_PERIODIC_ADV_SYNC_BIGINFO_REPORTS |-> "BLE_LL_PERIODIC_ADV_SYNC_BIGINFO_REPORTS",
    BLE_PHY_2M |-> "BLE_LL_CFG_FEAT_LE_2M_PHY", BLE_PHY_CODED |-> "BLE_LL_CFG_FEAT_LE_CODED_PHY",
    BLE_CHANNEL_SOUNDING |-> "BLE_LL_CHANNEL_SOUNDING", BLE_HCI_VS |-> "BLE_LL_HCI_VS",
    BLE_ISO |-> "BLE_LL_ISO", BLE_ISO_BROADCAST_SOURCE |-> "BLE_LL_ISO_BROADCASTER",
    BLE_ROLE_BROADCASTER |-> "BLE_LL_ROLE_BROADCASTER",
    BLE_ROLE_CENTRAL |-> "BLE_LL_ROLE_CENTRAL", BLE_ROLE_OBSERVER |-> "BLE_LL_ROLE_OBSERVER",
    BLE_ROLE_PERIPHERAL |-> "BLE_LL_ROLE_PERIPHERAL"]

\* A feature that host and link layer both know is on for both or off for both,
\* although each has a setting of its own, hundreds of lines apart and edited by
\* hand (syscfg.h:1085 and 1273): only a flag for one of the two divides them.
HostAndLinkLayerAgree ==
  Configured => \A c \in Compiler :
    LET v == Values(given[c])
    IN  \A s \in DOMAIN LinkLayerName :
          v[s] = v[LinkLayerName[s]] \/ {s, LinkLayerName[s]} \cap Kept(c) # {}

\* A choice that is made selects exactly one of its variants: two transports
\* that both define ble_transport_to_hs_*, or none, come from a flag alone
\* (syscfg.h:2175-2225).
OneVariant ==
  Configured => \A c \in Compiler :
    LET v == Values(given[c])
    IN  \A choice \in DOMAIN Choices :
          \/ ({choice} \cup Choices[choice]) \cap Kept(c) # {}
          \/ Cardinality({s \in Choices[choice] : v[s] = 1}) = v[choice]

\* initialize_nimble starts timer 5 at 32768 Hz in so many words, and ignores what
\* hal_timer_init and os_cputime_init answer (lib.rs:51-52): that is the timer the
\* C code counts on, at its frequency, unless a flag says otherwise.
ClockAgrees ==
  Configured =>
    LET cc == Values(given["cc"])
    IN  \/ {"TIMER_5", "OS_CPUTIME_TIMER_NUM", "OS_CPUTIME_FREQ"} \cap Kept("cc") # {}
        \/ /\ HasTimer(cc)
           /\ cc["OS_CPUTIME_TIMER_NUM"] = 5 /\ cc["OS_CPUTIME_FREQ"] = 32768
================================================================================

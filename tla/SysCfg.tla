--------------------------------- MODULE SysCfg ---------------------------------
(***************************************************************************)
(* The settings of include/syscfg/syscfg.h that the C code of this build   *)
(* reads: board, microcontroller, kernel and Bluetooth.  A setting is a    *)
(* macro MYNEWT_VAL_<name>, kept if a -D flag has defined it; its default  *)
(* is a number, or is computed from other settings.                        *)
(*                                                                         *)
(* Left out: settings that are strings or symbols, and the settings of     *)
(* packages that build.rs does not compile (mbedtls, libc, logs, the boot  *)
(* loader).                                                                *)
(***************************************************************************)
EXTENDS Integers

\* What f gives, and what g gives beside it.
Over(f, g) == [s \in DOMAIN f \cup DOMAIN g |-> IF s \in DOMAIN f THEN f[s] ELSE g[s]]

\* A part of the header: what is 0, what is 1, and the rest.
Section(off, on, rest) ==
  [s \in off \cup on \cup DOMAIN rest |->
     IF s \in off THEN 0 ELSE IF s \in on THEN 1 ELSE rest[s]]
--------------------------------------------------------------------------------
\* The board, its flash and its pins (syscfg.h:321-412).
BoardSettings ==
  Section({
    "SOFT_PWM", "HAL_FLASH_MAX_DEVICE_COUNT", "HAL_FLASH_VERIFY_ERASES",
    "HAL_FLASH_VERIFY_WRITES", "HAL_SYSTEM_RESET_CB", "ADC_0", "ADC_0_REFMV_0", "CRYPTO",
    "I2C_0", "I2C_1", "MCU_ACCESS_PORT_PROTECTION__default",
    "MCU_ACCESS_PORT_PROTECTION__enable"},
  {
    "BSP_NRF52840", "HAL_ENABLE_SOFTWARE_BREAKPOINTS", "HAL_SBRK", "GPIO_AS_PIN_RESET",
    "MCU_ACCESS_PORT_PROTECTION__disable", "MCU_ACCESS_PORT_PROTECTION"},
  [
    HAL_FLASH_VERIFY_BUF_SZ |-> 16, I2C_0_FREQ_KHZ |-> 100, I2C_0_PIN_SCL |-> 27,
    I2C_0_PIN_SDA |-> 26, I2C_1_FREQ_KHZ |-> 100])

\* The microcontroller (syscfg.h:414-579).
McuSettings ==
  Section({
    "MCU_BUS_DRIVER_I2C_USE_TWIM", "MCU_DEBUG_IGNORE_BKPT", "MCU_GPIO_USE_PORT_EVENT",
    "MCU_HFCLK_SOURCE__HFINT", "MCU_HFCLK_SOURCE__HFXO", "MCU_HFCLK_SOURCE",
    "MCU_LFCLK_SOURCE__LFRC", "MCU_LFCLK_SOURCE__LFSYNTH", "MCU_LFCLK_SOURCE__LFXO",
    "MCU_LFCLK_SOURCE", "MCU_NRF52832", "MCU_NRF52840", "MCU_TARGET__nRF52810",
    "MCU_TARGET__nRF52811", "MCU_TARGET__nRF52832", "PWM_0", "PWM_1", "PWM_2", "PWM_3",
    "QSPI_ADDRMODE", "QSPI_DPMCONFIG", "QSPI_ENABLE", "QSPI_READOC", "QSPI_SCK_DELAY",
    "QSPI_SCK_FREQ", "QSPI_SPI_MODE", "QSPI_WRITEOC"},
  {
    "MCU_COMMON_STARTUP", "MCU_DCDC_ENABLED", "MCU_FLASH_MIN_WRITE_SIZE", "MCU_ICACHE_ENABLED",
    "MCU_TARGET__nRF52840", "MCU_TARGET", "NFC_PINS_AS_GPIO"},
  [
    MCU_I2C_RECOVERY_DELAY_USEC |-> 100, QSPI_FLASH_PAGE_SIZE |-> 256,
    QSPI_FLASH_SECTOR_COUNT |-> 4096, QSPI_FLASH_SECTOR_SIZE |-> 4096, QSPI_PIN_CS |-> 17,
    QSPI_PIN_DIO0 |-> 20, QSPI_PIN_DIO1 |-> 21, QSPI_PIN_DIO2 |-> 22, QSPI_PIN_DIO3 |-> 23,
    QSPI_PIN_SCK |-> 19])

\* Its serial buses, timers and clocks (syscfg.h:581-749).
BusSettings ==
  Section({
    "SPI_0_MASTER", "SPI_0_SLAVE", "SPI_1_MASTER", "SPI_1_SLAVE", "SPI_2_MASTER", "SPI_2_SLAVE",
    "SPI_3_MASTER", "TEMP", "TIMER_0", "TIMER_1", "TIMER_2", "TIMER_3", "TIMER_4", "TRNG",
    "UART_1", "XTAL_32768", "XTAL_32768_SYNTH", "XTAL_RC"},
  {
    "TIMER_5", "UART_0"},
  [
    SPI_0_MASTER_PIN_MISO |-> 46, SPI_0_MASTER_PIN_MOSI |-> 45, SPI_0_MASTER_PIN_SCK |-> 47,
    SPI_0_SLAVE_PIN_MISO |-> 46, SPI_0_SLAVE_PIN_MOSI |-> 45, SPI_0_SLAVE_PIN_SCK |-> 47,
    SPI_0_SLAVE_PIN_SS |-> 44, UART_0_PIN_CTS |-> 7, UART_0_PIN_RTS |-> 5, UART_0_PIN_RX |-> 8,
    UART_0_PIN_TX |-> 6, UART_1_PIN_CTS |-> -1, UART_1_PIN_RTS |-> -1])

\* The kernel's memory pools, timers and traces (syscfg.h:751-849).
KernelSettings ==
  Section({
    "FLOAT_USER", "MSYS_1_SANITY_MIN_COUNT", "MSYS_2_BLOCK_COUNT", "MSYS_2_BLOCK_SIZE",
    "MSYS_2_SANITY_MIN_COUNT", "OS_ASSERT_CB", "OS_CLI", "OS_COREDUMP", "OS_COREDUMP_CB",
    "OS_CRASH_FILE_LINE", "OS_CRASH_LOG", "OS_CRASH_RESTORE_REGS", "OS_CRASH_STACKTRACE",
    "OS_CTX_SW_STACK_CHECK", "OS_DEBUG_MODE", "OS_DEFAULT_IRQ_CB", "OS_EVENTQ_DEBUG",
    "OS_EVENTQ_MONITOR"},
  {},
  [
    MSYS_1_BLOCK_COUNT |-> 5, MSYS_1_BLOCK_SIZE |-> 88, MSYS_SANITY_TIMEOUT |-> 60000,
    OS_CPUTIME_FREQ |-> 32768, OS_CPUTIME_TIMER_NUM |-> 5, OS_CTX_SW_STACK_GUARD |-> 4,
    OS_IDLE_TICKLESS_MS_MAX |-> 600000])

\* The main task, the scheduler and the watchdog (syscfg.h:851-937).
TaskSettings ==
  Section({
    "OS_MAIN_TASK_SANITY_ITVL_MS", "OS_MEMPOOL_CHECK", "OS_MEMPOOL_GUARD", "OS_MEMPOOL_POISON",
    "OS_SYSINIT_STAGE", "OS_SYSVIEW", "OS_SYSVIEW_TRACE_MBUF", "OS_SYSVIEW_TRACE_MEMPOOL",
    "OS_TASK_RUN_TIME_CPUTIME", "OS_TIME_DEBUG", "OS_WATCHDOG_MONITOR"},
  {
    "OS_SCHEDULING", "OS_SYSVIEW_TRACE_CALLOUT", "OS_SYSVIEW_TRACE_EVENTQ",
    "OS_SYSVIEW_TRACE_MUTEX", "OS_SYSVIEW_TRACE_SEM"},
  [
    OS_IDLE_TICKLESS_MS_MIN |-> 100, OS_MAIN_STACK_SIZE |-> 1024, OS_MAIN_TASK_PRIO |-> 127,
    OS_TICKS_PER_SEC |-> 128, SANITY_INTERVAL |-> 15000, WATCHDOG_INTERVAL |-> 30000])

\* What host and link layer have in common, and the front end (syscfg.h:1077-1227).
BleSettings ==
  Section({
    "BLE_CHANNEL_SOUNDING", "BLE_CONN_SUBRATING", "BLE_HCI_VS_OCF_OFFSET", "BLE_ISO",
    "BLE_ISO_BROADCAST_SINK", "BLE_ISO_BROADCAST_SOURCE", "BLE_ISO_TEST",
    "BLE_MAX_PERIODIC_SYNCS", "BLE_MULTI_ADV_INSTANCES", "BLE_PERIODIC_ADV",
    "BLE_PERIODIC_ADV_SYNC_BIGINFO_REPORTS", "BLE_PERIODIC_ADV_SYNC_TRANSFER", "BLE_PHY_2M",
    "BLE_PHY_CODED", "BLE_POWER_CONTROL", "BLE_FEM_ANTENNA", "BLE_FEM_LNA", "BLE_FEM_LNA_GAIN",
    "BLE_FEM_LNA_GAIN_TUNABLE", "BLE_FEM_PA", "BLE_FEM_PA_GAIN", "BLE_FEM_PA_GAIN_TUNABLE"},
  {
    "BLE_EXT_ADV", "BLE_HCI_VS", "BLE_MAX_CONNECTIONS", "BLE_ROLE_BROADCASTER",
    "BLE_ROLE_CENTRAL", "BLE_ROLE_OBSERVER", "BLE_ROLE_PERIPHERAL", "BLE_WHITELIST",
    "BLE_CONTROLLER", "BLE_DEVICE", "BLE_FEM_LNA_TURN_ON_US", "BLE_FEM_PA_TURN_ON_US"},
  [
    BLE_EXT_ADV_MAX_SIZE |-> 31, BLE_VERSION |-> 50, BLE_FEM_LNA_GPIO |-> -1,
    BLE_FEM_PA_GPIO |-> -1])

\* Features of the link layer (syscfg.h:1229-1315).
LlFeatureSettings ==
  Section({
    "BLE_HW_WHITELIST_ENABLE", "BLE_LL_ADD_STRICT_SCHED_PERIODS",
    "BLE_LL_CFG_FEAT_DATA_LEN_EXT", "BLE_LL_CFG_FEAT_LE_2M_PHY", "BLE_LL_CFG_FEAT_LE_CODED_PHY",
    "BLE_LL_CFG_FEAT_LE_ENCRYPTION", "BLE_LL_CFG_FEAT_LL_ENHANCED_CONN_UPDATE",
    "BLE_LL_CFG_FEAT_LL_PERIODIC_ADV", "BLE_LL_CFG_FEAT_LL_PERIODIC_ADV_ADI_SUPPORT",
    "BLE_LL_CFG_FEAT_LL_PERIODIC_ADV_SYNC_CNT", "BLE_LL_CFG_FEAT_LL_PERIODIC_ADV_SYNC_LIST_CNT",
    "BLE_LL_CFG_FEAT_LL_PERIODIC_ADV_SYNC_TRANSFER", "BLE_LL_CFG_FEAT_LL_PRIVACY",
    "BLE_LL_CFG_FEAT_LL_SCA_UPDATE", "BLE_LL_CFG_FEAT_SLAVE_INIT_FEAT_XCHG",
    "BLE_LL_CHANNEL_SOUNDING"},
  {
    "BLE_LL_CFG_FEAT_CTRL_TO_HOST_FLOW_CONTROL", "BLE_LL_CFG_FEAT_LE_CSA2",
    "BLE_LL_CFG_FEAT_LL_EXT_ADV"},
  <<>>)
\* Its connections, its debugging and its extensions (syscfg.h:1317-1431).
LlConnSettings ==
  Section({
    "BLE_LL_CONN_EVENT_END_MARGIN", "BLE_LL_CONN_INIT_MIN_WIN_OFFSET",
    "BLE_LL_CONN_PHY_INIT_UPDATE", "BLE_LL_CONN_PHY_PREFER_2M", "BLE_LL_CONN_STRICT_SCHED",
    "BLE_LL_CONN_STRICT_SCHED_FIXED", "BLE_LL_DIRECT_TEST_MODE", "BLE_LL_DTM",
    "BLE_LL_DTM_EXTENSIONS", "BLE_LL_EXT", "BLE_LL_EXT_ADV_AUX_PTR_CNT",
    "BLE_LL_HBD_FAKE_DUAL_MODE", "BLE_LL_HCI_LLCP_TRACE", "BLE_LL_HCI_VS_CONN_STRICT_SCHED",
    "BLE_LL_HCI_VS_EVENT_ON_ASSERT", "BLE_LL_HCI_VS_LOCAL_IRK"},
  {
    "BLE_LL_CONN_INIT_AUTO_DLE", "BLE_LL_EXT_ADV_ADVA_IN_AUX", "BLE_LL_HCI_VS"},
  [
    BLE_LL_CONN_INIT_SLOTS |-> 4, BLE_LL_CONN_PHY_DEFAULT_PREF_MASK |-> 7,
    BLE_LL_CONN_STRICT_SCHED_PERIOD_SLOTS |-> 8, BLE_LL_CONN_STRICT_SCHED_SLOT_US |-> 3750,
    BLE_LL_DEBUG_GPIO_HCI_CMD |-> -1, BLE_LL_DEBUG_GPIO_HCI_EV |-> -1,
    BLE_LL_DEBUG_GPIO_RFMGMT |-> -1, BLE_LL_DEBUG_GPIO_SCHED_ITEM |-> -1,
    BLE_LL_DEBUG_GPIO_SCHED_RUN |-> -1])

\* Isochronous channels, the radio, roles and scheduling (syscfg.h:1433-1575).
LlRadioSettings ==
  Section({
    "BLE_LL_ISO", "BLE_LL_ISOAL_MUX_PREFILL", "BLE_LL_ISO_BROADCASTER",
    "BLE_LL_ISO_HCI_DISCARD_THRESHOLD", "BLE_LL_ISO_HCI_FEEDBACK_INTERVAL_MS", "BLE_LL_LNA",
    "BLE_LL_PA", "BLE_LL_PERIODIC_ADV_SYNC_BIGINFO_REPORTS", "BLE_LL_PRIO",
    "BLE_LL_PUBLIC_DEV_ADDR", "BLE_LL_SCAN_AUX_SEGMENT_CNT",
    "BLE_LL_SCHED_AUX_CHAIN_MAFS_DELAY", "BLE_LL_SCHED_AUX_MAFS_DELAY"},
  {
    "BLE_LL_LNA_TURN_ON_US", "BLE_LL_PA_TURN_ON_US", "BLE_LL_ROLE_BROADCASTER",
    "BLE_LL_ROLE_CENTRAL", "BLE_LL_ROLE_OBSERVER", "BLE_LL_ROLE_PERIPHERAL"},
  [
    BLE_LL_LNA_GPIO |-> -1, BLE_LL_MANUFACTURER_ID |-> 2917, BLE_LL_MASTER_SCA |-> 4,
    BLE_LL_MAX_PKT_SIZE |-> 251, BLE_LL_MFRG_ID |-> 2917, BLE_LL_NUM_COMP_PKT_ITVL_MS |-> 2000,
    BLE_LL_NUM_SCAN_DUP_ADVS |-> 8, BLE_LL_NUM_SCAN_RSP_ADVS |-> 8, BLE_LL_OUR_SCA |-> 60,
    BLE_LL_PA_GPIO |-> -1, BLE_LL_RESOLV_LIST_SIZE |-> 4, BLE_LL_RFMGMT_ENABLE_TIME |-> 1500,
    BLE_LL_RNG_BUFSIZE |-> 32, BLE_LL_SCA |-> 60, BLE_LL_SCHED_SCAN_AUX_PDU_LEN |-> 41,
    BLE_LL_SCHED_SCAN_SYNC_PDU_LEN |-> 32, BLE_LL_STACK_SIZE |-> 120])

\* Limits of the link layer, and the PHY (syscfg.h:1577-1667).
PhySettings ==
  Section({
    "BLE_LL_STRICT_CONN_SCHEDULING", "BLE_LL_SYSVIEW", "BLE_LL_TX_PWR_DBM",
    "BLE_LL_USECS_PER_PERIOD", "BLE_LL_VND_EVENT_ON_ASSERT", "BLE_XTAL_SETTLE_TIME",
    "BLE_PHY_NRF52_HEADERMASK_WORKAROUND", "BLE_PHY_NRF5340_VDDH", "BLE_PHY_SYSVIEW",
    "BLE_PHY_UBLOX_BMD345_PUBLIC_ADDR", "BLE_PHY_VARIABLE_TIFS"},
  {
    "BLE_LP_CLOCK"},
  [
    BLE_LL_SYSINIT_STAGE |-> 250, BLE_LL_TX_PWR_MAX_DBM |-> 20, BLE_LL_WHITELIST_SIZE |-> 8,
    BLE_PHY_DBG_TIME_ADDRESS_END_PIN |-> -1, BLE_PHY_DBG_TIME_TXRXEN_READY_PIN |-> -1,
    BLE_PHY_DBG_TIME_WFR_PIN |-> -1, BLE_PHY_EXTENDED_TIFS |-> 2])

\* The host's ATT server, and GATT procedures (syscfg.h:1669-1851).
AttSettings ==
  Section({
    "BLE_AUDIO", "BLE_EATT_CHAN_NUM"},
  {
    "BLE_ATT_SVR_FIND_INFO", "BLE_ATT_SVR_FIND_TYPE", "BLE_ATT_SVR_INDICATE",
    "BLE_ATT_SVR_NOTIFY", "BLE_ATT_SVR_QUEUED_WRITE", "BLE_ATT_SVR_READ",
    "BLE_ATT_SVR_READ_BLOB", "BLE_ATT_SVR_READ_GROUP_TYPE", "BLE_ATT_SVR_READ_MULT",
    "BLE_ATT_SVR_READ_TYPE", "BLE_ATT_SVR_SIGNED_WRITE", "BLE_ATT_SVR_WRITE",
    "BLE_ATT_SVR_WRITE_NO_RSP", "BLE_EATT_LOG_LVL", "BLE_GAP_MAX_PENDING_CONN_PARAM_UPDATE",
    "BLE_GATT_INDICATE", "BLE_GATT_NOTIFY"},
  [
    BLE_ATT_PREFERRED_MTU |-> 256, BLE_ATT_SVR_MAX_PREP_ENTRIES |-> 64,
    BLE_ATT_SVR_QUEUED_WRITE_TMO |-> 30000, BLE_EATT_LOG_MOD |-> 27, BLE_EATT_MTU |-> 128,
    BLE_GATT_MAX_PROCS |-> 4, BLE_GATT_READ_MAX_ATTRS |-> 8, BLE_GATT_RESUME_RATE |-> 1000,
    BLE_GATT_WRITE_MAX_ATTRS |-> 4])

\* The host, L2CAP and the security manager (syscfg.h:1853-2015).
HsSettings ==
  Section({
    "BLE_HS_DEBUG", "BLE_HS_EXT_ADV_LEGACY_INSTANCE", "BLE_HS_FLOW_CTRL",
    "BLE_HS_FLOW_CTRL_TX_ON_DISCONNECT", "BLE_HS_GAP_UNHANDLED_HCI_EVENT",
    "BLE_HS_PHONY_HCI_ACKS", "BLE_L2CAP_COC_MAX_NUM", "BLE_L2CAP_ENHANCED_COC", "BLE_MESH",
    "BLE_SM_BONDING", "BLE_SM_CSIS_SIRK", "BLE_SM_KEYPRESS", "BLE_SM_LEGACY", "BLE_SM_LVL",
    "BLE_SM_MITM", "BLE_SM_OOB_DATA_FLAG", "BLE_SM_OUR_KEY_DIST", "BLE_SM_SC",
    "BLE_SM_SC_DEBUG_KEYS", "BLE_SM_SC_ONLY"},
  {
    "BLE_HOST", "BLE_HS_AUTO_START", "BLE_HS_LOG_LVL", "BLE_HS_REQUIRE_OS",
    "BLE_HS_STOP_ON_SHUTDOWN", "BLE_L2CAP_COC_SDU_BUFF_COUNT", "BLE_L2CAP_JOIN_RX_FRAGS",
    "BLE_L2CAP_SIG_MAX_PROCS", "BLE_SM_MAX_PROCS"},
  [
    BLE_HS_FLOW_CTRL_ITVL |-> 1000, BLE_HS_FLOW_CTRL_THRESH |-> 2, BLE_HS_LOG_MOD |-> 4,
    BLE_HS_STOP_ON_SHUTDOWN_TIMEOUT |-> 2000, BLE_HS_SYSINIT_STAGE |-> 200,
    BLE_ISO_MAX_BISES |-> 4, BLE_L2CAP_RX_FRAG_TIMEOUT |-> 30000, BLE_RPA_TIMEOUT |-> 300])

\* Stores, GAP and GATT services, the monitor (syscfg.h:2017-2125).
SvcSettings ==
  Section({
    "BLE_SM_THEIR_KEY_DIST", "BLE_SVC_GAP_APPEARANCE", "BLE_SVC_GAP_PPCP_MAX_CONN_INTERVAL",
    "BLE_SVC_GAP_PPCP_MIN_CONN_INTERVAL", "BLE_SVC_GAP_PPCP_SLAVE_LATENCY",
    "BLE_SVC_GAP_PPCP_SUPERVISION_TMO", "BLE_MONITOR_RTT", "BLE_MONITOR_UART"},
  {
    "BLE_MONITOR_RTT_BUFFERED"},
  [
    BLE_STORE_MAX_BONDS |-> 3, BLE_STORE_MAX_CCCDS |-> 8,
    BLE_SVC_GAP_APPEARANCE_WRITE_PERM |-> -1, BLE_SVC_GAP_CENTRAL_ADDRESS_RESOLUTION |-> -1,
    BLE_SVC_GAP_DEVICE_NAME_MAX_LENGTH |-> 31,
    BLE_SVC_GAP_DEVICE_NAME_WRITE_PERM |-> -1, BLE_SVC_GAP_SYSINIT_STAGE |-> 301,
    BLE_SVC_GATT_SYSINIT_STAGE |-> 302, BLE_MONITOR_CONSOLE_BUFFER_SIZE |-> 128,
    BLE_MONITOR_RTT_BUFFER_SIZE |-> 256,
    BLE_MONITOR_UART_BAUDRATE |-> 1000000, BLE_MONITOR_UART_BUFFER_SIZE |-> 64])

\* The transport between host and link layer (syscfg.h:2127-2225).
TransportSettings ==
  Section({
    "BLE_TRANSPORT_HS__cdc", "BLE_TRANSPORT_HS__dialog_cmac", "BLE_TRANSPORT_HS__native",
    "BLE_TRANSPORT_HS__nrf5340", "BLE_TRANSPORT_HS__uart", "BLE_TRANSPORT_HS__usb",
    "BLE_TRANSPORT_LL__apollo3", "BLE_TRANSPORT_LL__custom", "BLE_TRANSPORT_LL__dialog_cmac",
    "BLE_TRANSPORT_LL__emspi", "BLE_TRANSPORT_LL__nrf5340", "BLE_TRANSPORT_LL__socket",
    "BLE_TRANSPORT_LL__uart_ll"},
  {
    "BLE_TRANSPORT", "BLE_TRANSPORT_HS__custom", "BLE_TRANSPORT_HS", "BLE_TRANSPORT_LL__native",
    "BLE_TRANSPORT_LL"},
  [
    BLE_TRANSPORT_ACL_COUNT |-> 24, BLE_TRANSPORT_ACL_FROM_HS_COUNT |-> 24,
    BLE_TRANSPORT_ACL_FROM_LL_COUNT |-> 24, BLE_TRANSPORT_ACL_SIZE |-> 251,
    BLE_TRANSPORT_EVT_COUNT |-> 2, BLE_TRANSPORT_EVT_DISCARDABLE_COUNT |-> 16,
    BLE_TRANSPORT_EVT_SIZE |-> 70, BLE_TRANSPORT_ISO_COUNT |-> 10,
    BLE_TRANSPORT_ISO_FROM_HS_COUNT |-> 10, BLE_TRANSPORT_ISO_FROM_LL_COUNT |-> 10,
    BLE_TRANSPORT_ISO_SIZE |-> 300])
--------------------------------------------------------------------------------
\* The header's sections together: the board and its controller, the kernel, what
\* host and link layer share, the link layer, the host, the transport.
Hardware  == Over(BoardSettings, Over(McuSettings, BusSettings))
Kernel    == Over(KernelSettings, TaskSettings)
LinkLayer == Over(LlFeatureSettings, Over(LlConnSettings, Over(LlRadioSettings, PhySettings)))
Host      == Over(AttSettings, Over(HsSettings, SvcSettings))

Sections ==
  Over(Hardware, Over(Kernel, Over(BleSettings, Over(LinkLayer, Over(Host, TransportSettings)))))

\* Mutated: extended advertising is turned on for the host alone.
LiteralsHostOnly == Over([BLE_LL_CFG_FEAT_LL_EXT_ADV |-> 0], Sections)

\* Mutated: the native transport is turned on beside the custom one.
LiteralsBothHosts == Over([BLE_TRANSPORT_HS__native |-> 1], Sections)

\* Mutated: the CPU time counts microseconds.
LiteralsMicros == Over([OS_CPUTIME_FREQ |-> 1000000], Sections)

\* Every setting whose default is a number.
Literals == Sections

\* Settings the header takes away, given or not.
Removed == {
    "I2C_1_PIN_SCL", "I2C_1_PIN_SDA", "SPI_1_MASTER_PIN_MISO", "SPI_1_MASTER_PIN_MOSI",
    "SPI_1_MASTER_PIN_SCK", "SPI_1_SLAVE_PIN_MISO", "SPI_1_SLAVE_PIN_MOSI",
    "SPI_1_SLAVE_PIN_SCK", "SPI_1_SLAVE_PIN_SS", "SPI_2_MASTER_PIN_MISO",
    "SPI_2_MASTER_PIN_MOSI", "SPI_2_MASTER_PIN_SCK", "SPI_2_SLAVE_PIN_MISO",
    "SPI_2_SLAVE_PIN_MOSI", "SPI_2_SLAVE_PIN_SCK", "SPI_2_SLAVE_PIN_SS",
    "SPI_3_MASTER_PIN_MISO", "SPI_3_MASTER_PIN_MOSI", "SPI_3_MASTER_PIN_SCK", "UART_1_PIN_RX",
    "UART_1_PIN_TX", "BLE_ACL_BUF_COUNT", "BLE_ACL_BUF_SIZE", "BLE_HCI_BRIDGE",
    "BLE_HCI_EVT_BUF_SIZE", "BLE_HCI_EVT_HI_BUF_COUNT", "BLE_HCI_EVT_LO_BUF_COUNT",
    "BLE_HCI_TRANSPORT"}

\* The GATT procedures of a client, which a central is taken to be.
ClientProcedures == {
    "BLE_GATT_DISC_ALL_CHRS", "BLE_GATT_DISC_ALL_DSCS", "BLE_GATT_DISC_ALL_SVCS",
    "BLE_GATT_DISC_CHR_UUID", "BLE_GATT_DISC_SVC_UUID", "BLE_GATT_FIND_INC_SVCS",
    "BLE_GATT_READ", "BLE_GATT_READ_LONG", "BLE_GATT_READ_MULT", "BLE_GATT_READ_UUID",
    "BLE_GATT_SIGNED_WRITE", "BLE_GATT_WRITE", "BLE_GATT_WRITE_LONG", "BLE_GATT_WRITE_NO_RSP",
    "BLE_GATT_WRITE_RELIABLE"}

\* The defaults that are computed from other settings, under values v.
Computed(v) ==
  LET Num(b)   == IF b THEN 1 ELSE 0
      Is(s)    == v[s] # 0
      Newer    == v["BLE_VERSION"] >= 52
      LlLinks  == Num(Is("BLE_LL_ROLE_CENTRAL") \/ Is("BLE_LL_ROLE_PERIPHERAL"))
      Packet   == v["BLE_LL_MAX_PKT_SIZE"]
  IN  Over([s \in ClientProcedures |-> v["BLE_ROLE_CENTRAL"]], [
        BLE_GATT_READ_MULT_VAR |-> Num(Is("BLE_ROLE_CENTRAL") /\ Newer),
        BLE_GATT_NOTIFY_MULTIPLE |-> Num(Newer),
        BLE_ATT_SVR_NOTIFY_MULTI |-> Num(Is("BLE_ATT_SVR_NOTIFY") /\ Newer),
        BLE_LL_CFG_FEAT_CONN_PARAM_REQ |-> LlLinks,
        BLE_LL_CFG_FEAT_PERIPH_INIT_FEAT_XCHG |-> LlLinks,
        BLE_LL_CFG_FEAT_LE_PING |-> v["BLE_LL_CFG_FEAT_LE_ENCRYPTION"],
        BLE_LL_CONN_INIT_MAX_TX_BYTES |-> Packet,
        BLE_LL_SUPP_MAX_RX_BYTES |-> Packet,
        BLE_LL_SUPP_MAX_TX_BYTES |-> Packet,
        BLE_ISO_MAX_BIGS |-> v["BLE_MULTI_ADV_INSTANCES"],
        BLE_L2CAP_COC_MPS |-> v["MSYS_1_BLOCK_SIZE"] - 8,
        BLE_L2CAP_MAX_CHANS |-> 3 * v["BLE_MAX_CONNECTIONS"]])

\* The header as one compiler reads it, given its -D flags: a setting it is given
\* keeps that value, the others get their defaults.
Values(given) ==
  LET kept == [s \in DOMAIN given \ Removed |-> given[s]]
  IN  Over(kept, Over(Literals, Computed(Over(kept, Literals))))

\* The settings that select one of several variants, and their variants.
Choices == [
    MCU_ACCESS_PORT_PROTECTION |-> {
      "MCU_ACCESS_PORT_PROTECTION__default", "MCU_ACCESS_PORT_PROTECTION__disable",
      "MCU_ACCESS_PORT_PROTECTION__enable"},
    MCU_HFCLK_SOURCE |-> {"MCU_HFCLK_SOURCE__HFINT", "MCU_HFCLK_SOURCE__HFXO"},
    MCU_LFCLK_SOURCE |-> {
      "MCU_LFCLK_SOURCE__LFRC", "MCU_LFCLK_SOURCE__LFSYNTH", "MCU_LFCLK_SOURCE__LFXO"},
    MCU_TARGET |-> {
      "MCU_TARGET__nRF52810", "MCU_TARGET__nRF52811", "MCU_TARGET__nRF52832",
      "MCU_TARGET__nRF52840"},
    BLE_TRANSPORT_HS |-> {
      "BLE_TRANSPORT_HS__cdc", "BLE_TRANSPORT_HS__custom", "BLE_TRANSPORT_HS__dialog_cmac",
      "BLE_TRANSPORT_HS__native", "BLE_TRANSPORT_HS__nrf5340", "BLE_TRANSPORT_HS__uart",
      "BLE_TRANSPORT_HS__usb"},
    BLE_TRANSPORT_LL |-> {
      "BLE_TRANSPORT_LL__apollo3", "BLE_TRANSPORT_LL__custom", "BLE_TRANSPORT_LL__dialog_cmac",
      "BLE_TRANSPORT_LL__emspi", "BLE_TRANSPORT_LL__native", "BLE_TRANSPORT_LL__nrf5340",
      "BLE_TRANSPORT_LL__socket", "BLE_TRANSPORT_LL__uart_ll"}]
====

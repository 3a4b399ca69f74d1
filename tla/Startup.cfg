SPECIFICATION FirmwareSpec
CONSTANTS
  Given <- AnySetting
  GivenValue <- SomeNumbers
  MaxFlags = 1
  Top = 1
  Slots = 3
  Extra = {"first", "second"}
  MaxTasks = 2
  MaxPending = 2
INVARIANTS TypeOK ChannelsOwned QueueReady HostAndLinkLayerAgree OneVariant ClockAgrees
PROPERTIES StartupEnds
CHECK_DEADLOCK FALSE

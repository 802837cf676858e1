CONSTANTS
  NULL = NULL
  MaxSpiDevices = 3
  TimeMod = 4
  Byte = 4
  Factories <- MCFactories
  PressureOf <- MCPressureOf
  TemperatureOf <- MCTemperatureOf
  MaxSamples = 3
  SpiDevIdx = 1
  DelayMs = 1
  Timeout = 2
  PollGap = 1
SPECIFICATION BmpSpec
INVARIANT PowersExact

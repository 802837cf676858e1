------------------------------ MODULE HalEsp32 ------------------------------
(***************************************************************************)
(* The SPI bus, the interrupt pins and the clock of                        *)
(* ports/hal/esp32/halEsp32.c, behind the forwarders of hal/dispatch.c.    *)
(* An operator named esp... is the function of the port, one named hal...  *)
(* the forwarder.  A handle is the index of its slot in s_spiHandles; a    *)
(* slot holds the device that spi_bus_add_device has put there.            *)
(*                                                                         *)
(* External: spi_bus_initialize and spi_bus_add_device may fail, and the   *)
(* second does while the bus is not initialised.  A call that fails        *)
(* changes nothing and is a stuttering step here.                          *)
(***************************************************************************)
EXTENDS Integers

CONSTANTS
  NULL,
  MaxSpiDevices,   \* K_ESP32_MAX_SPI_DEVICES
  TimeMod          \* stands for 2^32, where the clock in ms wraps

ASSUME HalAssumption ==
  /\ NULL \notin Nat \union {"icm20948", "bmp390"}
  /\ MaxSpiDevices \in Nat \ {0}
  /\ TimeMod \in Nat \ {0}

\* K_ESP32_SPI_IDX_ICM and K_ESP32_SPI_IDX_BMP, with the chip select of each.
DeviceOfCount == [i \in {0, 1} |-> IF i = 0 THEN "icm20948" ELSE "bmp390"]

SpiDevices == {DeviceOfCount[i] : i \in DOMAIN DeviceOfCount}
Slots      == 0 .. MaxSpiDevices - 1

VARIABLES s_p_halPort,       \* whether a port is registered
          s_busInitialized, s_spiDevCount, s_spiHandles,
          isrAttached        \* the pin of the BMP390 has its handler

spiVars == <<s_busInitialized, s_spiDevCount, s_spiHandles>>
halVars == <<s_p_halPort, spiVars, isrAttached>>

HalInit ==
  /\ s_p_halPort = FALSE
  /\ s_busInitialized = FALSE /\ s_spiDevCount = 0
  /\ s_spiHandles = [h \in Slots |-> NULL]
  /\ isrAttached = FALSE

\* The static variables of the program after a restart.
halReset ==
  /\ s_p_halPort' = FALSE
  /\ s_busInitialized' = FALSE /\ s_spiDevCount' = 0
  /\ s_spiHandles' = [h \in Slots |-> NULL]
  /\ isrAttached' = FALSE

\* SPP_CORE_setHalPort, the first thing SPP_CORE_boot does.
setHalPort == s_p_halPort' = TRUE /\ UNCHANGED <<spiVars, isrAttached>>

-----------------------------------------------------------------------------
espSpiBusInit ==
  s_busInitialized' = TRUE /\ UNCHANGED <<s_spiDevCount, s_spiHandles>>

halSpiBusInit ==
  s_p_halPort /\ espSpiBusInit /\ UNCHANGED <<s_p_halPort, isrAttached>>

espSpiGetHandle(deviceIdx) ==
  IF deviceIdx >= MaxSpiDevices THEN NULL ELSE deviceIdx

halSpiGetHandle(deviceIdx) ==
  IF s_p_halPort THEN espSpiGetHandle(deviceIdx) ELSE NULL

\* Which device the handle gets depends on the number of those before it.
espSpiDeviceInit(p_handle) ==
  /\ p_handle # NULL
  /\ s_spiDevCount < MaxSpiDevices
  /\ s_spiDevCount \in DOMAIN DeviceOfCount
  /\ s_busInitialized
  /\ s_spiHandles' = [s_spiHandles EXCEPT ![p_handle] =
                        DeviceOfCount[s_spiDevCount]]
  /\ s_spiDevCount' = s_spiDevCount + 1
  /\ UNCHANGED s_busInitialized

halSpiDeviceInit(p_handle) ==
  /\ s_p_halPort
  /\ espSpiDeviceInit(p_handle)
  /\ UNCHANGED <<s_p_halPort, isrAttached>>

\* The device the frames of a spiTransmit go to, one after the other until
\* one fails; NULL where spiTransmit returns an error before the first.
espTransmitsTo(p_handle) ==
  IF p_handle = NULL THEN NULL ELSE s_spiHandles[p_handle]

halTransmitsTo(p_handle) ==
  IF s_p_halPort THEN espTransmitsTo(p_handle) ELSE NULL

-----------------------------------------------------------------------------
\* gpioConfigInterrupt and gpioRegisterIsr of a pin; neither fails.
espAttachIsr == isrAttached' = TRUE

halAttachIsr ==
  IF s_p_halPort THEN espAttachIsr ELSE UNCHANGED isrAttached

\* The interrupt handler of the port sets the flag it was given.
espGpioIsr(p_flag) == p_flag \/ isrAttached

\* Fault: the difference is taken the wrong way round.
elapsedMs_swapped(now, start) == (start - now) % TimeMod

\* Fault: the difference of two clock values is not taken modulo 2^32.
elapsedMs_noWrap(now, start) == now - start

\* What the loops of delayMs and waitDrdy compare with their limit.
elapsedMs(now, start) == (now - start) % TimeMod

HalTypeOK ==
  /\ s_p_halPort \in BOOLEAN /\ s_busInitialized \in BOOLEAN
  /\ s_spiDevCount \in 0 .. MaxSpiDevices
  /\ s_spiHandles \in [Slots -> SpiDevices \union {NULL}]
  /\ isrAttached \in BOOLEAN
=============================================================================

--------------------------- MODULE HalEsp32Storage ---------------------------
(***************************************************************************)
(* The memory card of ports/hal/esp32/halEsp32.c behind the forwarders of  *)
(* hal/dispatch.c.  The port remembers in s_sdMounted what it believes of  *)
(* the file system, which is another thing than whether it is mounted.     *)
(*                                                                         *)
(* External: esp_vfs_fat_sdspi_mount fails while the path is in use, and   *)
(* with esp_vfs_fat_sdcard_unmount may fail whenever the card does not     *)
(* work; a failure leaves the file system as it was.                       *)
(***************************************************************************)

VARIABLES s_p_halPort,    \* whether a port is registered
          s_sdMounted,
          vfsMounted,     \* the file system of the card is at its path
          cardOk          \* the card works: no operation on it fails

sdVars == <<s_sdMounted, vfsMounted>>

StorageInit ==
  s_p_halPort = FALSE /\ s_sdMounted = FALSE /\ vfsMounted = FALSE /\ cardOk = TRUE

vfsMount(ok) ==
  IF ok THEN ~vfsMounted /\ vfsMounted' = TRUE
  ELSE (vfsMounted \/ ~cardOk) /\ UNCHANGED vfsMounted

vfsUnmount(ok) ==
  IF ok THEN vfsMounted' = FALSE ELSE ~cardOk /\ UNCHANGED vfsMounted

-----------------------------------------------------------------------------
\* "ok" is whether the call returns K_SPP_OK.
espStorageMount(ok) ==
  \/ s_sdMounted /\ ok /\ UNCHANGED sdVars
  \/ ~s_sdMounted /\ vfsMount(ok) /\ s_sdMounted' = ok

halStorageMount(ok) ==
  IF s_p_halPort THEN espStorageMount(ok) ELSE ~ok /\ UNCHANGED sdVars

\* The port forgets the card whether or not the unmount succeeds.
espStorageUnmount(ok) ==
  \/ ~s_sdMounted /\ ok /\ UNCHANGED sdVars
  \/ s_sdMounted /\ vfsUnmount(ok) /\ s_sdMounted' = FALSE

halStorageUnmount(ok) ==
  IF s_p_halPort THEN espStorageUnmount(ok) ELSE ~ok /\ UNCHANGED sdVars

StorageTypeOK ==
  /\ s_p_halPort \in BOOLEAN /\ s_sdMounted \in BOOLEAN
  /\ vfsMounted \in BOOLEAN /\ cardOk \in BOOLEAN
=============================================================================

------------------------------ MODULE PtpPins -------------------------------
(***************************************************************************)
(* The pins of a PTP clock: which function, on which channel, each pin     *)
(* has (ptp_set_pinfunc of ptp_chardev.c, called by the PTP_PIN_SETFUNC    *)
(* ioctls and by the sysfs files of ptp_sysfs.c).  One request at a time   *)
(* holds pincfg_mux.  The driver is told to disable a function before a    *)
(* pin loses it, in calls that others who do not take the mutex may fall   *)
(* between.                                                                *)
(***************************************************************************)
EXTENDS Naturals

CONSTANTS
  Pins,      \* indices of pin_config, from 0
  Requests,  \* what the user asks pins to do: records of a function and a channel
  NExt, NPer \* n_ext_ts and n_per_out of the driver

ASSUME PtpPinsAssumption == Pins \subseteq Nat /\ NExt \in Nat /\ NPer \in Nat

VARIABLES
  pin_config,
  setting     \* the request that holds pincfg_mux: the pin it sets, the function,
              \* the pins it takes the function from, and how far it has got

Func(f, c) == [func |-> f, chan |-> c]

\* The pins that have a function.
Having(fn) == {p \in Pins : pin_config[p] = fn}

First(S) == CHOOSE p \in S : \A q \in S : p <= q

\* The pin that "previously had this function" is the one asked for.
AlreadySet(pin, fn) == Having(fn) # {} /\ First(Having(fn)) = pin

\* The function and channel are ones the driver has; verify is the driver's.
Acceptable(fn) ==
  CASE fn.func = "none"    -> TRUE
    [] fn.func = "extts"   -> fn.chan < NExt
    [] fn.func = "perout"  -> fn.chan < NPer
    [] fn.func = "physync" -> fn.chan = 0

NoSetting == [pc |-> "none", pin |-> 0, fn |-> Func("none", 0), from |-> {}]

\* The request is accepted; the pin that had the function is about to lose it.
SetBegin(pin, fn) ==
  /\ setting.pc = "none" /\ ~AlreadySet(pin, fn) /\ Acceptable(fn)
  /\ setting' = [pc |-> "take", pin |-> pin, fn |-> fn,
                 from |-> IF Having(fn) = {} THEN {} ELSE {First(Having(fn))}]
  /\ UNCHANGED pin_config

\* It loses it, and the pin asked for is about to lose what it did so far.
SetTake ==
  /\ setting.pc = "take"
  /\ pin_config' = [p \in Pins |-> IF p \in setting.from THEN Func("none", 0) ELSE pin_config[p]]
  /\ setting' = [setting EXCEPT !.pc = "give"]

\* The pin asked for gets the function.
SetGive ==
  /\ setting.pc = "give"
  /\ pin_config' = [pin_config EXCEPT ![setting.pin] = setting.fn]
  /\ setting' = NoSetting

\* The pins about to lose a function that the driver has been told to disable.
Leaving == CASE setting.pc = "none" -> {}
             [] setting.pc = "take" -> setting.from
             [] setting.pc = "give" -> {setting.pin}
=============================================================================

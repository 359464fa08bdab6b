------------------------------ MODULE MockPins ------------------------------
(***************************************************************************)
(* The mock PHC as a PTP clock (ptp_mock.c, ptp_chardev.c, ptp_sysfs.c):   *)
(* its 1PPS input is a function of one of its pins.  Requests to enable    *)
(* and disable external time stamps need no pin.  The ioctl takes          *)
(* pincfg_mux for them, the sysfs attribute extts_enable does not, so it   *)
(* may come between the steps of a request that changes the pins.          *)
(***************************************************************************)
EXTENDS MockExtts, PtpPins, FiniteSets

VARIABLE enabledOn   \* history: the pins that had the input when it was enabled, less
                     \* those that had been told to disable it, to give it up

pinVars == <<pin_config, setting, enabledOn>>
allVars == <<vars, pinVars>>

Input == Func("extts", 0)

\* The first pin of mock_phc_create is the input, the others do nothing.
PinsInit ==
  /\ pin_config = [p \in Pins |-> IF p = 0 THEN Input ELSE Func("none", 0)]
  /\ setting = NoSetting
  /\ enabledOn = {}

\* PTP_EXTTS_REQUEST, when no pin request holds the mutex, or a write to
\* extts_enable at any time, to enable channel 0.
ExttsEnable ==
  /\ Enable
  /\ enabledOn' = Having(Input) \ Leaving
  /\ UNCHANGED <<pin_config, setting>>

\* The same to disable it.
ExttsDisable == Disable /\ enabledOn' = {} /\ UNCHANGED <<pin_config, setting>>

\* Mutant: the driver is not told.
DisablePinfuncNot(fn) == UNCHANGED <<vars, enabledOn>>

\* ptp_disable_pinfunc.
DisablePinfunc(fn) ==
  IF fn = Input /\ enabled THEN Disable /\ enabledOn' = {}
                           ELSE UNCHANGED <<vars, enabledOn>>

\* PTP_PIN_SETFUNC, or a write to the pin's sysfs file: the function is disabled
\* if another pin has it, then what the pin did so far, and then the pin is set.
PinSetBegin(pin, fn) ==
  /\ phase # "gone" /\ MayRun
  /\ SetBegin(pin, fn)
  /\ IF Having(fn) # {} THEN DisablePinfunc(fn) ELSE UNCHANGED <<vars, enabledOn>>

PinSetTake == MayRun /\ SetTake /\ DisablePinfunc(pin_config[setting.pin])

PinSetGive == MayRun /\ SetGive /\ UNCHANGED <<vars, enabledOn>>

\* posix_clock_unregister would leave a request that is under way behind.
LeavesCaller == phase' = "gone" /\ setting.pc # "none"

InitPins == Init /\ PinsInit

NextPins ==
  \/ ExttsEnable \/ ExttsDisable
  \/ \E pin \in Pins, fn \in Requests : PinSetBegin(pin, fn)
  \/ PinSetTake \/ PinSetGive
  \/ Others /\ UNCHANGED pinVars /\ ~LeavesCaller

SpecPins == InitPins /\ [][NextPins]_allVars

-----------------------------------------------------------------------------
(* Properties. *)

\* After any sequence of requests, and in the middle of one, a function is on at
\* most one pin, and time stamps are only taken while the input is on the pin it
\* was enabled on: a pin that loses it, or a move of it, disables them ("Disable
\* whatever function was previously assigned"), unless the sysfs attribute has
\* enabled them between the call that disables them and the pin's loss.
InputKeepsPin ==
  /\ \A p, q \in Pins :
       (pin_config[p] = pin_config[q] /\ pin_config[p].func # "none") => p = q
  /\ enabled => \A p \in enabledOn : pin_config[p] = Input
=============================================================================

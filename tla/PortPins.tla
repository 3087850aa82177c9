------------------------------ MODULE PortPins ------------------------------
(***************************************************************************)
(* The signals of the ports: what the configuration says of each pin, what *)
(* the GPIO registers hold, and the levels driven; the shell's uart command*)
(* and config reset, which change the first and then the others, while the *)
(* DMA interrupt starts and the USART interrupt ends transmissions that    *)
(* drive TXA.                                                              *)
(*                                                                         *)
(* A command's arguments are drawn one at a time.  The loop over "all"     *)
(* ports hands port -1 on to usb_cdc_reconfigure_port_pin, which then reads*)
(* a pin in front of the configuration: none of the ports' pins.           *)
(***************************************************************************)
EXTENDS Naturals, FiniteSets

CONSTANTS
  Ports,     \* 0 .. USB_CDC_NUM_PORTS - 1, or less
  Pins,      \* signal names
  Targets,   \* ports the uart command is used with, All among them or not
  All,
  MaxSettings    \* bound: settings made or refused in a behaviour

ASSUME PortAssumption   ==
  Ports \subseteq Nat /\ Ports # {} /\ IsFiniteSet(Ports) /\ All \notin Nat
ASSUME TargetAssumption == Targets \subseteq Ports \cup {All} /\ Targets # {}
ASSUME PinAssumption    ==
  /\ "txa" \in Pins
  /\ Pins \subseteq {"rx", "tx", "rts", "cts", "dsr", "dtr", "dcd", "ri", "txa"}
ASSUME BoundAssumption  == MaxSettings \in Nat

Inputs == {"rx", "cts", "dsr", "dcd", "ri"} \cap Pins
Driven == {"rts", "dtr", "txa"} \cap Pins       \* outputs the firmware drives
Outputs == Pins \ Inputs

\* Port 0 has no CTS: USB occupies the pin.
Present(p, pin) == ~(p = 0 /\ pin = "cts")

Values == [output |-> {"pp", "od"}, active |-> {"high", "low"},
           pull |-> {"floating", "up", "down"}]
PinConfig == [output: Values.output, active: Values.active, pull: Values.pull]

\* default_device_config; fields that are not set are zero.
DefaultPin(p, pin) ==
  [output |-> "pp",
   active |-> IF pin \in {"rx", "tx", "txa"} \/ ~Present(p, pin) THEN "high" ELSE "low",
   pull   |-> IF ~Present(p, pin) \/ pin \in Outputs THEN "floating"
              ELSE IF pin = "cts" THEN "down" ELSE "up"]
Default == [p \in Ports |-> [pin \in Pins |-> DefaultPin(p, pin)]]

VARIABLES
  config,      \* cdc_config.port_config[port].pins[pin]
  gpio,        \* mode of the pin in CRL/CRH (and, for a pull, ODR)
  level,       \* level driven on a pin: "high" or "low"
  is_active,   \* rts_active, dtr_active and txa_active
  clear,       \* the level that *txa_bitband_clear = 1 drives
  pc,          \* where the main loop is
  target,      \* the port argument of the running uart command
  at,          \* the pin being configured: [port, pin, reset]
  todo,        \* pins usb_cdc_reconfigure has yet to configure
  busy,        \* is the port transmitting?
  via_all,     \* history: "all" used since the start or the last reset?
  settings     \* settings and resets so far

pins == <<config, gpio, level, is_active, clear>>
vars == <<pins, pc, target, at, todo, busy, via_all, settings>>

TypeOK ==
  /\ config \in [Ports -> [Pins -> PinConfig]]
  /\ gpio \in [Ports -> [Pins -> Values.output \cup Values.pull]]
  /\ level \in [Ports -> [Driven -> Values.active]]
  /\ is_active \in [Ports -> [Driven -> BOOLEAN]]
  /\ clear \in [Ports -> Values.active]
  /\ pc \in {"idle", "argument", "configure", "update", "address"}
  /\ target \in Targets
  /\ at \in [port: Ports, pin: Pins, reset: BOOLEAN]
  /\ todo \subseteq Ports \X Pins
  /\ busy \in [Ports -> BOOLEAN] /\ via_all \in BOOLEAN
  /\ settings \in 0..MaxSettings

Opposite(l) == IF l = "high" THEN "low" ELSE "high"

\* gpio_pin_set
PinLevel(c, active) == IF active THEN c.active ELSE Opposite(c.active)

\* Faulty variant: an input takes its polarity for its pull.
ModeSwapped(pin, c) == IF pin \in Inputs THEN c.active ELSE c.output

\* gpio_pin_init: an input's pull, an output's type
Mode(pin, c) == IF pin \in Inputs THEN c.pull ELSE c.output

\* The level the USART interrupt is to drive
ClearLevel(p) == PinLevel(config[p].txa, FALSE)

\* After usb_cdc_reset, with nothing saved in the flash
Init ==
  /\ config = Default
  /\ gpio = [p \in Ports |-> [pin \in Pins |-> Mode(pin, config[p][pin])]]
  /\ is_active = [p \in Ports |-> [pin \in Driven |-> FALSE]]
  /\ level = [p \in Ports |-> [pin \in Driven |-> PinLevel(config[p][pin], FALSE)]]
  /\ clear = [p \in Ports |-> ClearLevel(p)]
  /\ pc = "idle" /\ todo = {} /\ via_all = FALSE /\ settings = 0
  /\ target = CHOOSE t \in Targets : TRUE
  /\ at = [port |-> CHOOSE p \in Ports : TRUE, pin |-> "txa", reset |-> FALSE]
  /\ busy = [p \in Ports |-> FALSE]

-----------------------------------------------------------------------------
(* cdc_shell_cmd_uart                                                       *)

BeginCommand(t) ==
  /\ pc = "idle" /\ pc' = "argument"
  /\ target' = t
  /\ UNCHANGED <<pins, at, todo, busy, via_all, settings>>

\* The end of the line, an argument that is unknown, or a setting the signal does
\* not have: what was set before stays set.
EndCommand ==
  /\ pc = "argument" /\ pc' = "idle"
  /\ UNCHANGED <<pins, target, at, todo, busy, via_all, settings>>

\* The tests of cdc_shell_cmd_uart_set_{output_type, pull_type, polarity}
Settable(pin, field) ==
  \/ field = "output" /\ pin \in Outputs
  \/ field = "pull"   /\ pin \in Inputs
  \/ field = "active" /\ pin \notin {"rx", "tx", "cts"}

\* The loop over ports stores the setting; usb_cdc_reconfigure_port_pin gets the
\* command's port, not the loop's, and begins with gpio_pin_init.
Set(pin, field, value) ==
  /\ pc = "argument" /\ Settable(pin, field)
  /\ settings < MaxSettings /\ settings' = settings + 1
  /\ config' = [p \in Ports |->
                  IF target \in {p, All} THEN [config[p] EXCEPT ![pin][field] = value]
                  ELSE config[p]]
  /\ \/ /\ target = All
        /\ via_all' = TRUE
        /\ UNCHANGED <<pc, gpio, at>>
     \/ /\ target # All
        /\ pc' = "update"
        /\ gpio' = [gpio EXCEPT ![target][pin] = Mode(pin, config'[target][pin])]
        /\ at' = [port |-> target, pin |-> pin, reset |-> FALSE]
        /\ UNCHANGED via_all
  /\ UNCHANGED <<level, is_active, clear, target, todo, busy>>

\* cdc_shell_cmd_config_reset: device_config_reset, then usb_cdc_reconfigure
ConfigReset ==
  /\ pc = "idle" /\ pc' = "configure"
  /\ settings < MaxSettings /\ settings' = settings + 1
  /\ config' = Default
  /\ todo' = Ports \X Pins
  /\ via_all' = FALSE
  /\ UNCHANGED <<gpio, level, is_active, clear, target, at, busy>>

\* One turn of the loop of usb_cdc_configure_port
ConfigurePin ==
  /\ pc = "configure" /\ pc' = "update"
  /\ LET x == CHOOSE x \in todo : TRUE
         p == x[1]
         pin == x[2]
     IN  /\ gpio' = [gpio EXCEPT ![p][pin] = Mode(pin, config[p][pin])]
         /\ at' = [port |-> p, pin |-> pin, reset |-> TRUE]
         /\ todo' = todo \ {x}
  /\ UNCHANGED <<config, level, is_active, clear, target, busy, via_all, settings>>

\* Faulty variant: RTS and DTR keep their level.
UpdateLevelsTxaOnly ==
  /\ pc = "update" /\ pc' = "address"
  /\ LET p == at.port
         updated == {"txa"} \cap {at.pin}
     IN  level' = [level EXCEPT ![p] = [pin \in Driven |->
           IF pin \in updated THEN PinLevel(config[p][pin], is_active[p][pin]) ELSE @[pin]]]
  /\ UNCHANGED <<config, gpio, is_active, clear, target, at, todo, busy, via_all,
                 settings>>

\* usb_cdc_update_port_{rts, dtr, txa}: for the pin set, for all three in a reset
UpdateLevels ==
  /\ pc = "update" /\ pc' = "address"
  /\ LET p == at.port
         updated == IF at.reset THEN Driven ELSE Driven \cap {at.pin}
     IN  level' = [level EXCEPT ![p] = [pin \in Driven |->
           IF pin \in updated THEN PinLevel(config[p][pin], is_active[p][pin]) ELSE @[pin]]]
  /\ UNCHANGED <<config, gpio, is_active, clear, target, at, todo, busy, via_all,
                 settings>>

\* txa_bitband_clear := gpio_pin_get_bitband_clear_addr(...)
UpdateAddress ==
  /\ pc = "address"
  /\ pc' = IF ~at.reset THEN "argument" ELSE IF todo # {} THEN "configure" ELSE "idle"
  /\ clear' = IF at.reset \/ at.pin = "txa"
              THEN [clear EXCEPT ![at.port] = ClearLevel(at.port)] ELSE clear
  /\ UNCHANGED <<config, gpio, level, is_active, target, at, todo, busy, via_all,
                 settings>>

-----------------------------------------------------------------------------
(* The rest of the firmware.                                                *)

\* usb_cdc_set_port_dtr and usb_cdc_set_port_rts
Activate(p, pin, active) ==
  /\ is_active' = [is_active EXCEPT ![p][pin] = active]
  /\ level' = [level EXCEPT ![p][pin] = PinLevel(config[p][pin], active)]

SetControlLine(p, pin, active) ==
  /\ pc = "idle" /\ pin \in Driven \ {"txa"}
  /\ Activate(p, pin, active)
  /\ UNCHANGED <<config, gpio, clear, pc, target, at, todo, busy, via_all, settings>>

\* usb_cdc_port_start_tx: from the main loop, or from the DMA interrupt while the
\* port transmits
StartTx(p) ==
  /\ pc = "idle" \/ busy[p]
  /\ Activate(p, "txa", TRUE)
  /\ busy' = [busy EXCEPT ![p] = TRUE]
  /\ UNCHANGED <<config, gpio, clear, pc, target, at, todo, via_all, settings>>

\* usb_cdc_usart_irq_handler: the pin is cleared, txa_active is not.
EndTx(p) ==
  /\ busy[p]
  /\ level' = [level EXCEPT ![p].txa = clear[p]]
  /\ busy' = [busy EXCEPT ![p] = FALSE]
  /\ UNCHANGED <<config, gpio, is_active, clear, pc, target, at, todo, via_all,
                 settings>>

-----------------------------------------------------------------------------
Next ==
  \/ \E t \in Targets : BeginCommand(t)
  \/ EndCommand
  \/ \E pin \in Pins : \E field \in DOMAIN Values : \E value \in Values[field] :
       Set(pin, field, value)
  \/ ConfigReset \/ ConfigurePin \/ UpdateLevels \/ UpdateAddress
  \/ \E p \in Ports : StartTx(p) \/ EndTx(p)
  \/ \E p \in Ports, pin \in Driven, active \in BOOLEAN : SetControlLine(p, pin, active)

Spec == Init /\ [][Next]_vars

-----------------------------------------------------------------------------
(* Properties.                                                              *)

\* The registers and levels of every port's pins are as the configuration and
\* the active lines ask, and the USART interrupt clears TXA to its inactive level.
Applied ==
  \A p \in Ports :
    /\ \A pin \in Pins : Present(p, pin) => gpio[p][pin] = Mode(pin, config[p][pin])
    /\ \A pin \in Driven \ {"txa"} :
         level[p][pin] = PinLevel(config[p][pin], is_active[p][pin])
    /\ clear[p] = ClearLevel(p)

\* README, "Changes to the UART parameters are applied instantly": when the
\* command is done they are.
AppliedInstantly == pc = "idle" => Applied

\* The same for commands that name one port; and a config reset applies the
\* configuration to all pins whatever state the commands left them in.
AppliedUnlessAll == pc = "idle" /\ ~via_all => Applied

\* README, "TXA is active when UART is transmitting data": a port that is not
\* transmitting drives TXA inactive.
TxaInactiveAtRest ==
  pc = "idle" => \A p \in Ports :
                   ~busy[p] => level[p].txa = PinLevel(config[p].txa, FALSE)
=============================================================================

--------------------------- MODULE RegisterExamples ---------------------------
(***************************************************************************)
(* The examples that are a fixed sequence of register accesses: i2c, spi,  *)
(* the UART loopback, 1-wire, PWM and counter, watchdog, WiFi, Ethernet    *)
(* and power settings, a configured analog input.  Registers outlive the   *)
(* program that wrote them, so what an example does depends on what the    *)
(* examples before it left behind, above all when one was cut short.       *)
(***************************************************************************)
EXTENDS Utilities, Sequences

CONSTANTS
  Types,     \* device types: LJM_dtT4, T7, T8, and "other"
  Programs,  \* the examples that are run
  MaxRuns    \* bound: examples run one after the other

RegisterAssumption ==
  /\ Types \subseteq {"T4", "T7", "T8", "other"}
  /\ MaxRuns \in Nat

VARIABLES
  todo,        \* the calls main still has to make
  device,      \* GetDeviceType
  wifi,        \* HARDWARE_INSTALLED says the device has WiFi
  regs,        \* device: the registers
  rom,         \* romH and romL of the 1-wire example
  example,     \* the program that runs
  own,         \* history: registers this run has written
  exampleRuns, \* programs run so far
  unclean      \* history: a run did not end normally

deviceVars == <<device, wifi, regs>>
vars == <<sessionVars, pc, todo, deviceVars, rom, example, own, exampleRuns, unclean>>

(* Calls: a WriteNameOrDie, a WriteNameArrayOrDie, an LJM_eWriteNames     *)
(* that is checked with ErrorCheck or with WriteNamesOrDie, and the others. *)
Call(op) == [op |-> op, frames |-> <<>>]
Write(reg, value) == [op |-> "WriteNameOrDie", frames |-> <<<<reg, value>>>>]
WriteData(reg, numBytes) == [op |-> "WriteNameArrayOrDie", frames |-> <<<<reg, numBytes>>>>]
Put(frames) == [op |-> "eWriteNames", frames |-> frames]
WriteNames(frames) == [op |-> "WriteNamesOrDie", frames |-> frames]
Read(reg, numBytes) == [op |-> "Read", frames |-> <<<<reg, numBytes>>>>]

(* Of data that is written only the number of bytes is kept. *)
I2CTransaction(numTx, numRx) ==
  <<Write("I2C_NUM_BYTES_TX", numTx), Write("I2C_NUM_BYTES_RX", numRx),
    WriteData("I2C_DATA_TX", numTx), Write("I2C_GO", 1)>> \o
  (IF numRx > 0 THEN <<Read("I2C_DATA_RX", numRx)>> ELSE <<>>)

i2c_eeprom ==
  <<Write("I2C_SDA_DIONUM", IF device = "T4" THEN 5 ELSE 1),
    Write("I2C_SCL_DIONUM", IF device = "T4" THEN 4 ELSE 0),
    Write("I2C_SPEED_THROTTLE", 0), Write("I2C_OPTIONS", 0), Write("I2C_SLAVE_ADDRESS", 80)>> \o
  I2CTransaction(1, 4) \o I2CTransaction(5, 0) \o I2CTransaction(1, 4)

SPI ==
  LET t4 == device = "T4"
  IN <<Write("SPI_CS_DIONUM", IF t4 THEN 5 ELSE 1), Write("SPI_CLK_DIONUM", IF t4 THEN 4 ELSE 0),
       Write("SPI_MISO_DIONUM", IF t4 THEN 7 ELSE 3), Write("SPI_MOSI_DIONUM", IF t4 THEN 6 ELSE 2),
       Write("SPI_MODE", 3), Write("SPI_SPEED_THROTTLE", 0), Write("SPI_OPTIONS", 0),
       Write("SPI_NUM_BYTES", 4), WriteData("SPI_DATA_TX", 4), Write("SPI_GO", 1),
       Read("SPI_DATA_RX", 4)>>

uart_loopback_test ==
  <<Write("ASYNCH_ENABLE", 0), Write("ASYNCH_RX_DIONUM", 0), Write("ASYNCH_TX_DIONUM", 1),
    Write("ASYNCH_BAUD", 9600), Write("ASYNCH_NUM_DATA_BITS", 8), Write("ASYNCH_PARITY", 0),
    Write("ASYNCH_NUM_STOP_BITS", 1), Write("ASYNCH_ENABLE", 1),
    Write("ASYNCH_NUM_BYTES_TX", 4), WriteData("ASYNCH_DATA_TX", 4), Write("ASYNCH_TX_GO", 1),
    Read("ASYNCH_DATA_RX", 4)>>

(* ROM stands for the match registers, which get romH and romL. *)
oneWire(function, numTx, numRx) ==
  <<WriteNames(<<<<"ONEWIRE_DQ_DIONUM", 8>>, <<"ONEWIRE_DPU_DIONUM", 0>>,
                 <<"ONEWIRE_OPTIONS", 0>>, <<"ONEWIRE_FUNCTION", function>>,
                 <<"ONEWIRE_NUM_BYTES_TX", numTx>>, <<"ONEWIRE_NUM_BYTES_RX", numRx>>>>)>> \o
  (IF numTx > 0 THEN <<WriteData("ONEWIRE_DATA_TX", numTx)>> ELSE <<>>) \o
  <<Write("ONEWIRE_GO", 1), Call("ReadAndPrintResults")>> \o
  (IF numRx > 0 THEN <<Read("ONEWIRE_DATA_RX", numRx)>> ELSE <<>>)

(* 0xF0 searches, 0x55 talks to the device whose ROM was found. *)
Search == 240
Match == 85
one_wire == oneWire(Search, 0, 0) \o oneWire(Match, 1, 0) \o oneWire(Match, 1, 2)

(* The DIO numbers are part of the names: PWM and COUNTER here. *)
dio_ef_Configure ==
  <<Put(<<<<"CLOCK0_DIVISOR", 1>>, <<"CLOCK0_ROLL_VALUE", 8000>>, <<"CLOCK0_ENABLE", 1>>,
          <<"PWM_INDEX", 0>>, <<"PWM_CONFIG_A", 2000>>, <<"PWM_ENABLE", 1>>,
          <<"COUNTER_ENABLE", 0>>, <<"COUNTER_INDEX", 7>>, <<"COUNTER_ENABLE", 1>>>>)>>

(* The features are left running. *)
dio_ef_pwm_and_counter_LeftOn == dio_ef_Configure

dio_ef_pwm_and_counter ==
  dio_ef_Configure \o
  <<Put(<<<<"CLOCK0_ENABLE", 0>>, <<"PWM_ENABLE", 0>>, <<"COUNTER_ENABLE", 0>>>>)>>

(* The ten frames about DIO and DAC lines are one here. *)
write_watchdog_config ==
  <<Put(<<<<"WATCHDOG_ENABLE", 0>>, <<"WATCHDOG_TIMEOUT", 20>>, <<"WATCHDOG_STRICT", 0>>,
          <<"WATCHDOG_RESET", 1>>, <<"WATCHDOG_DIO", 0>>, <<"WATCHDOG_ENABLE", 0>>>>)>>

write_wifi_config ==
  <<Call("DoesDeviceHaveWiFi"),
    Put(<<<<"WIFI_IP", 1>>, <<"WIFI_SUBNET", 1>>, <<"WIFI_GATEWAY", 1>>, <<"WIFI_DHCP", 1>>>>),
    Put(<<<<"WIFI_SSID", 1>>>>), Put(<<<<"WIFI_PASSWORD", 1>>>>),
    Put(<<<<"WIFI_APPLY_SETTINGS", 1>>>>)>>

WriteEthernetConfig ==
  <<Put(<<<<"ETHERNET_IP", 1>>, <<"ETHERNET_SUBNET", 1>>, <<"ETHERNET_GATEWAY", 1>>,
          <<"ETHERNET_DHCP", 1>>>>)>>

write_power_config ==
  <<Put(<<<<"POWER_ETHERNET", 1>>, <<"POWER_WIFI", 0>>, <<"POWER_AIN", 1>>, <<"POWER_LED", 1>>>>)>>

single_ain_with_config ==
  <<Write("AIN0_RESOLUTION_INDEX", 0)>> \o
  (IF device # "T4" THEN <<Write("AIN0_RANGE", 10)>> ELSE <<>>) \o
  (IF device = "T7" THEN <<Write("AIN0_NEGATIVE_CH", 199)>> ELSE <<>>) \o
  <<Read("AIN0", 1)>>

Main(p) ==
  <<Call("OpenOrDie")>> \o
  (CASE p = "i2c" -> i2c_eeprom                  [] p = "spi" -> SPI
     [] p = "uart" -> uart_loopback_test         [] p = "1-wire" -> one_wire
     [] p = "dio_ef" -> dio_ef_pwm_and_counter   [] p = "watchdog" -> write_watchdog_config
     [] p = "wifi" -> write_wifi_config          [] p = "ethernet" -> WriteEthernetConfig
     [] p = "power" -> write_power_config        [] p = "ain" -> single_ain_with_config) \o
  <<Call("CloseOrDie")>>

-----------------------------------------------------------------------------
Value(reg) == IF reg \in DOMAIN regs THEN regs[reg] ELSE -1   \* -1: not known

Init ==
  /\ SessionInit
  /\ device \in Types
  /\ wifi \in BOOLEAN
  /\ example \in Programs
  /\ pc = "main"
  /\ todo = Main(example)
  /\ regs = [r \in {} |-> 0]
  /\ rom = "zero"
  /\ own = {}
  /\ exampleRuns = 1
  /\ unclean = FALSE

Calls(op) == Running /\ Head(todo).op = op

(* The registers after the first n frames of a write. *)
After(frames, n) ==
  LET written == {frames[i][1] : i \in 1..n}
      last(r) == CHOOSE i \in 1..n : frames[i][1] = r /\ \A j \in (i + 1)..n : frames[j][1] # r
  IN [r \in DOMAIN regs \cup written |-> IF r \in written THEN frames[last(r)][2] ELSE regs[r]]

(* An error may come after any of the frames was written; after a warning   *)
(* the two kinds that use ErrorCheck go on.  The names that                 *)
(* dio_ef makes up for an unknown device do not exist.                     *)
WriteFrames(e) ==
  /\ Running
  /\ Head(todo).op \in {"WriteNameOrDie", "WriteNameArrayOrDie", "eWriteNames", "WriteNamesOrDie"}
  /\ example = "dio_ef" /\ device = "other" => e = "error"
  /\ LET frames == Head(todo).frames
     IN \E n \in 0..Len(frames) :
          /\ n < Len(frames) => e = "error"
          /\ example = "dio_ef" /\ device = "other" => n = 0
          /\ regs' = After(frames, n)
          /\ own' = own \cup {frames[i][1] : i \in 1..n}
  /\ IF Head(todo).op \in {"eWriteNames", "WriteNameArrayOrDie"}
     THEN ErrorCheck(e, "main")
     ELSE WriteNameOrDie(e, "main")
  /\ todo' = Tail(todo)
  /\ UNCHANGED <<device, wifi, rom, example, exampleRuns, unclean>>

(* OpenOrDie and what is only printed after it *)
Open(e) ==
  /\ Calls("OpenOrDie")
  /\ OpenOrDie(e, "main") /\ todo' = Tail(todo)
  /\ UNCHANGED <<deviceVars, rom, example, own, exampleRuns, unclean>>

ReadData(e) ==
  /\ Calls("Read")
  /\ ErrorCheck(e, "main") /\ todo' = Tail(todo)
  /\ UNCHANGED <<deviceVars, rom, example, own, exampleRuns, unclean>>

(* exit(1) without closing *)
NeedWiFi ==
  /\ Calls("DoesDeviceHaveWiFi")
  /\ IF wifi THEN todo' = Tail(todo) /\ UNCHANGED <<sessionVars, pc>> ELSE BareExit /\ pc' = "exit" /\ UNCHANGED todo
  /\ UNCHANGED <<deviceVars, rom, example, own, exampleRuns, unclean>>

(* The results are copied to romH and romL also when reading them failed. *)
ReadAndPrintResults(e) ==
  /\ Calls("ReadAndPrintResults")
  /\ rom' = IF e = "error" THEN "garbage"
            ELSE IF Value("ONEWIRE_FUNCTION") = Search THEN "found" ELSE rom
  /\ todo' = Tail(todo)
  /\ UNCHANGED <<sessionVars, pc, deviceVars, example, own, exampleRuns, unclean>>

Close(e) ==
  /\ Calls("CloseOrDie")
  /\ CloseOrDie(e) /\ UNCHANGED todo
  /\ UNCHANGED <<deviceVars, rom, example, own, exampleRuns, unclean>>

(* Ctrl-C; the library closes its devices. *)
Interrupt ==
  /\ Running
  /\ CheckedExit /\ pc' = "exit" /\ UNCHANGED todo
  /\ UNCHANGED <<deviceVars, rom, example, own, exampleRuns, unclean>>

StartNext(p) ==
  /\ ~Running
  /\ exampleRuns < MaxRuns
  /\ exampleRuns' = exampleRuns + 1
  /\ example' = p /\ pc' = "main" /\ todo' = Main(p)
  /\ exit' = "none" /\ handle' = "none"
  /\ rom' = "zero" /\ own' = {}
  /\ unclean' = (unclean \/ exit # "ok")
  /\ UNCHANGED deviceVars

Finished ==
  /\ ~Running
  /\ UNCHANGED vars

Next ==
  \/ \E e \in Outcome :
       Open(e) \/ WriteFrames(e) \/ ReadData(e) \/ ReadAndPrintResults(e) \/ Close(e)
  \/ NeedWiFi \/ Interrupt
  \/ \E p \in Programs : StartNext(p)
  \/ Finished

Spec == Init /\ [][Next]_vars
-----------------------------------------------------------------------------
(* The DIO lines a feature drives while it is on; the PWM's and counter's   *)
(* numbers depend on the device.                                           *)
PwmLines ==
  CASE device = "T4" -> [pwm |-> 6, counter |-> 18]
    [] device = "T8" -> [pwm |-> 7, counter |-> 6]
    [] OTHER -> [pwm |-> 0, counter |-> 18]
FeatureLines ==
  (IF Value("PWM_ENABLE") = 1 THEN {PwmLines.pwm} ELSE {}) \cup
  (IF Value("COUNTER_ENABLE") = 1 THEN {PwmLines.counter} ELSE {})

(* The lines and the other registers each transaction uses, by the register *)
(* that starts it.                                                         *)
LinesOf ==
  [I2C_GO |-> {"I2C_SDA_DIONUM", "I2C_SCL_DIONUM"},
   SPI_GO |-> {"SPI_CS_DIONUM", "SPI_CLK_DIONUM", "SPI_MISO_DIONUM", "SPI_MOSI_DIONUM"},
   ASYNCH_TX_GO |-> {"ASYNCH_RX_DIONUM", "ASYNCH_TX_DIONUM"},
   ONEWIRE_GO |-> {"ONEWIRE_DQ_DIONUM"}]
Parameters ==
  [I2C_GO |-> {"I2C_SPEED_THROTTLE", "I2C_OPTIONS", "I2C_SLAVE_ADDRESS", "I2C_NUM_BYTES_TX",
               "I2C_NUM_BYTES_RX", "I2C_DATA_TX"},
   SPI_GO |-> {"SPI_MODE", "SPI_SPEED_THROTTLE", "SPI_OPTIONS", "SPI_NUM_BYTES", "SPI_DATA_TX"},
   ASYNCH_TX_GO |-> {"ASYNCH_ENABLE", "ASYNCH_BAUD", "ASYNCH_NUM_DATA_BITS", "ASYNCH_PARITY",
                     "ASYNCH_NUM_STOP_BITS", "ASYNCH_NUM_BYTES_TX", "ASYNCH_DATA_TX"},
   ONEWIRE_GO |-> {"ONEWIRE_DPU_DIONUM", "ONEWIRE_OPTIONS", "ONEWIRE_FUNCTION",
                   "ONEWIRE_NUM_BYTES_TX", "ONEWIRE_NUM_BYTES_RX"}]
CountOf == [I2C_DATA_TX |-> "I2C_NUM_BYTES_TX", SPI_DATA_TX |-> "SPI_NUM_BYTES",
            ASYNCH_DATA_TX |-> "ASYNCH_NUM_BYTES_TX", ONEWIRE_DATA_TX |-> "ONEWIRE_NUM_BYTES_TX"]

Starts(go) == Calls("WriteNameOrDie") /\ Head(todo).frames[1][1] = go

(* A transaction is started with settings this run has made, each of them,  *)
(* whatever an earlier run left, and sends as many bytes as it was given.  *)
TransactionsOwn ==
  \A go \in DOMAIN LinesOf : Starts(go) =>
    /\ LinesOf[go] \cup Parameters[go] \subseteq own
    /\ \A data \in DOMAIN CountOf \cap own : Value(CountOf[data]) \in {0, Value(data)}

(* No bus uses a line that a PWM or a counter drives, unless an earlier     *)
(* example was cut short before it switched them off.                      *)
LinesFree ==
  \A go \in DOMAIN LinesOf : Starts(go) /\ ~unclean =>
    {Value(r) : r \in LinesOf[go]} \cap FeatureLines = {}

(* 1-wire addresses the device that the search found; after a failed read   *)
(* of the results it goes on with whatever the buffer held.                *)
MatchesFoundRom == Starts("ONEWIRE_GO") /\ Value("ONEWIRE_FUNCTION") = Match => rom # "zero"

(* The UART's settings only change while it is off, however the run before  *)
(* this one ended.                                                         *)
UartConfiguredOff ==
  Calls("WriteNameOrDie") /\ Head(todo).frames[1][1] \in {"ASYNCH_BAUD", "ASYNCH_RX_DIONUM"}
    => Value("ASYNCH_ENABLE") = 0

RegisterExamplesSafe == TransactionsOwn /\ LinesFree /\ MatchesFoundRom /\ UartConfiguredOff
=============================================================================

------------------------------ MODULE Display ------------------------------
(***************************************************************************)
(* What the screen says: OLED_ShowInterfaceData of the main loop (main.c)  *)
(* draws the data of the interface whose number it was called with, KEY0's *)
(* handler (KEY.c) changes the number and draws the other frame, and the   *)
(* handlers of the sensors publish values and set ready flags.             *)
(*                                                                         *)
(* Main's code is cut where a handler can change what it reads next or     *)
(* what it has read; drawing a row and refreshing the screen is one step   *)
(* (module Oled has the bytes).  Values are abstract.                      *)
(***************************************************************************)
EXTENDS Naturals

CONSTANTS Value,   \* what the CO2 sensor measures
          Climate, \* what the DHT11 does: a temperature and a humidity
          Blank    \* a row without data

ASSUME DisplayAssumption ==
  Climate \subseteq Value \X Value /\ Blank \notin Value

VARIABLES
  showAt,            \* where OLED_ShowInterfaceData stands
  index,             \* its argument
  copy,              \* the texts it has composed
  preindex, prestatus, prestart,  \* its static variables, 255 at first
  InterfaceIndex, presscnt,       \* the number of the interface, and KEY0's
  CO2Data_Ready, TempHumiData_Ready,
  CO2_value, temperature, humidity, \* Envir_collectedVlaue
  connected, started, \* the bits CONNECT and START of tcp_client_flag
  row                \* the data on the screen, below the frame

progress  == <<showAt, index, copy>>
statics   == <<preindex, prestatus, prestart>>
interface == <<InterfaceIndex, presscnt>>
ready     == <<CO2Data_Ready, TempHumiData_Ready>>
values    == <<CO2_value, temperature, humidity>>
link      == <<connected, started>>
displayVars == <<progress, statics, interface, ready, values, link, row>>

Empty == [co2 |-> Blank, temp |-> Blank, hum |-> Blank, net |-> Blank]

DisplayInit ==
  /\ showAt = "top" /\ index = 0 /\ copy = <<Blank, Blank>>
  /\ preindex = 255 /\ prestatus = 255 /\ prestart = 255
  /\ InterfaceIndex = 0 /\ presscnt = 0
  /\ CO2Data_Ready = FALSE /\ TempHumiData_Ready = FALSE
  /\ CO2_value = Blank /\ temperature = Blank /\ humidity = Blank
  /\ connected = 0 /\ started = 0
  /\ row = Empty

-----------------------------------------------------------------------------
ShowGo(l, next) == showAt = l /\ showAt' = next

\* The call, and the test of what was shown before.
ShowEnter ==
  /\ ShowGo("top", IF InterfaceIndex = 0 THEN "co2" ELSE "net")
  /\ index' = InterfaceIndex
  /\ IF preindex # InterfaceIndex \/ prestart # started
     THEN /\ preindex' = InterfaceIndex /\ prestart' = started /\ prestatus' = 255
     ELSE UNCHANGED statics
  /\ UNCHANGED <<copy, interface, ready, values, link, row>>

\* Mutant: the flag is cleared whether it was set or not.
ShowCO2Always ==
  /\ ShowGo("co2", "co2clear") /\ UNCHANGED row
  /\ UNCHANGED <<index, copy, statics, interface, ready, values, link>>

\* Interface 0: the CO2 row if a measurement is ready, then the flag.
ShowCO2 ==
  /\ ShowGo("co2", IF CO2Data_Ready THEN "co2clear" ELSE "temp")
  /\ row' = IF CO2Data_Ready THEN [row EXCEPT !.co2 = CO2_value] ELSE row
  /\ UNCHANGED <<index, copy, statics, interface, ready, values, link>>
ClearCO2 ==
  /\ ShowGo("co2clear", "temp") /\ CO2Data_Ready' = FALSE
  /\ UNCHANGED <<index, copy, statics, interface, TempHumiData_Ready, values,
                 link, row>>

\* The two texts are composed one after the other, then drawn.
ReadTemp ==
  /\ ShowGo("temp", IF TempHumiData_Ready THEN "hum" ELSE "top")
  /\ copy' = IF TempHumiData_Ready THEN <<temperature, Blank>> ELSE copy
  /\ UNCHANGED <<index, statics, interface, ready, values, link, row>>
ReadHum ==
  /\ ShowGo("hum", "draw") /\ copy' = <<copy[1], humidity>>
  /\ UNCHANGED <<index, statics, interface, ready, values, link, row>>
DrawTempHum ==
  /\ ShowGo("draw", "thclear")
  /\ row' = [row EXCEPT !.temp = copy[1], !.hum = copy[2]]
  /\ UNCHANGED <<index, copy, statics, interface, ready, values, link>>
ClearTempHum ==
  /\ ShowGo("thclear", "top") /\ TempHumiData_Ready' = FALSE
  /\ UNCHANGED <<index, copy, statics, interface, CO2Data_Ready, values, link, row>>

\* Interface 1: drawn again when the connection changed, or preindex or
\* prestart did.
ReadLink ==
  /\ ShowGo("net", IF prestatus # connected THEN "drawnet" ELSE "top")
  /\ prestatus' = connected
  /\ copy' = <<connected, started>>
  /\ UNCHANGED <<index, preindex, prestart, interface, ready, values, link, row>>
DrawLink ==
  /\ ShowGo("drawnet", "top") /\ row' = [row EXCEPT !.net = copy]
  /\ UNCHANGED <<index, copy, statics, interface, ready, values, link>>

ShowStep == \/ ShowEnter \/ ShowCO2 \/ ClearCO2 \/ ReadTemp \/ ReadHum
            \/ DrawTempHum \/ ClearTempHum \/ ReadLink \/ DrawLink

-----------------------------------------------------------------------------

\* EXTI4_IRQHandler: presses count 1, 2; the frame is drawn on an empty screen.
Key0 ==
  /\ presscnt' = (presscnt + 1) % 2
  /\ InterfaceIndex' = presscnt
  /\ row' = Empty
  /\ UNCHANGED <<progress, statics, ready, values, link>>

\* USART3_IRQHandler publishes a concentration.
PublishCO2 ==
  /\ CO2_value' \in Value /\ CO2Data_Ready' = TRUE
  /\ UNCHANGED <<progress, statics, interface, TempHumiData_Ready, temperature,
                 humidity, link, row>>

\* TIM2_IRQHandler publishes a temperature and a humidity.
PublishTempHum ==
  /\ \E c \in Climate : temperature' = c[1] /\ humidity' = c[2]
  /\ TempHumiData_Ready' = TRUE
  /\ UNCHANGED <<progress, statics, interface, CO2Data_Ready, CO2_value, link, row>>

\* The connection changes in lwIP's callbacks, which the main loop calls, so
\* not while it draws; KEY1's handler ends the upload at any time.
LinkChange ==
  /\ showAt = "top" /\ connected' \in 0 .. 1
  /\ started' \in {0, connected'}
  /\ UNCHANGED <<progress, statics, interface, ready, values, row>>
Pause ==
  /\ started' = 0
  /\ UNCHANGED <<progress, statics, interface, ready, values, connected, row>>

DisplayNext == ShowStep \/ Key0 \/ PublishCO2 \/ PublishTempHum \/ LinkChange \/ Pause
DisplaySpec == DisplayInit /\ [][DisplayNext]_displayVars

-----------------------------------------------------------------------------
\* The types of the variables.
DisplayTypeOK ==
  /\ showAt \in {"top", "co2", "co2clear", "temp", "hum", "draw", "thclear",
                 "net", "drawnet"}
  /\ {index, InterfaceIndex, presscnt} \subseteq 0 .. 1
  /\ preindex \in {0, 1, 255}
  /\ {connected, started} \subseteq 0 .. 1 /\ {prestatus, prestart} \subseteq {0, 1, 255}
  /\ {CO2Data_Ready, TempHumiData_Ready} \subseteq BOOLEAN
  /\ {CO2_value, temperature, humidity, row.co2, row.temp, row.hum}
       \subseteq Value \cup {Blank}

\* Whatever a measurement races with: once KEY0 is left alone and the sensors
\* keep sending the same values, interface 0 comes to show them, as a pair.
DataConverges ==
  <>[][FALSE]_<<interface, values>> =>
    <>[](InterfaceIndex = 0 => /\ row.co2 = CO2_value
                              /\ row.temp = temperature /\ row.hum = humidity)

\* Interface 1 does not show an outdated connection for ever, nor an upload
\* that KEY1 has paused, although both are cached and KEY1 interrupts the
\* drawing.  (A paused upload that starts again in time may stay "paused".)
LinkConverges ==
  <>[][FALSE]_<<interface, link>> =>
    <>[](InterfaceIndex = 1 /\ row.net # Blank =>
           row.net[1] = connected /\ (row.net[2] = 1 => started = 1))

\* The screen comes to tell the truth about the sensors and the connection.
ScreenConverges == []DisplayTypeOK /\ DataConverges /\ LinkConverges

-----------------------------------------------------------------------------
\* main.c: "shows the data of the interface with that number": when main is
\* not drawing, no data of the other interface is on the screen.  It does not
\* hold: KEY0 may come between main's test and its drawing.
NoForeignData ==
  showAt = "top" => /\ InterfaceIndex = 0 => row.net = Blank
                    /\ InterfaceIndex = 1 => row.co2 = Blank /\ row.temp = Blank
=============================================================================

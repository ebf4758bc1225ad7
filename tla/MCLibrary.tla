------------------------------ MODULE MCLibrary ------------------------------
(***************************************************************************)
(* The parts of the program that others are built from, each on its own:   *)
(* a behaviour is one of one part, the variables of the others are left    *)
(* alone.                                                                  *)
(***************************************************************************)
EXTENDS Strings, Printf, KermitFrame, BootLinux, Timer, Uart, MemTest, Pins, Startup

VARIABLE part

Off == "off"
libVars == <<part, strVars, printfVars, frameVars, bootVars, timerVars, uartVars, memVars,
             pinVars, startVars>>

StrOff == before = Off /\ mem = Off /\ call = Off /\ ret = Off
TimerOff ==
    /\ counter = Off /\ waiting = Off /\ usec = Off /\ cycles = Off
    /\ start = Off /\ chunk = Off /\ wanted = Off /\ passed = Off
MemOff ==
    /\ fault = Off /\ first = Off /\ pattern = Off /\ incr = Off /\ passes = Off /\ error = Off
StartOff == ram = Off /\ loaded = Off /\ running_at = Off /\ r1 = Off /\ r2 = Off
BootOff ==
    /\ argv = Off /\ at = Off /\ boot = Off /\ number = Off
    /\ cmdline = Off /\ tags = Off /\ entered = Off /\ lines = Off

LibInit ==
    /\ part \in {"strings", "printf", "frame", "boot", "timer", "uart", "memory", "gpio",
                 "mux", "start"}
    /\ PrintfInit /\ FrameInit /\ UartInit /\ PinsInit
    /\ IF part = "strings" THEN StrInit ELSE StrOff
    /\ IF part = "boot" THEN BootInit ELSE BootOff
    /\ IF part = "timer" THEN TimerInit ELSE TimerOff
    /\ IF part = "memory" THEN MemInit ELSE MemOff
    /\ IF part = "start" THEN StartInit ELSE StartOff

LibNext ==
    /\ UNCHANGED part
    /\ \/ /\ part = "strings" /\ StrNext
          /\ UNCHANGED <<printfVars, frameVars, bootVars, timerVars, uartVars, memVars, pinVars, startVars>>
       \/ /\ part = "printf" /\ PrintfNext
          /\ UNCHANGED <<strVars, frameVars, bootVars, timerVars, uartVars, memVars, pinVars, startVars>>
       \/ /\ part = "frame" /\ FrameNext
          /\ UNCHANGED <<strVars, printfVars, bootVars, timerVars, uartVars, memVars, pinVars, startVars>>
       \/ /\ part = "boot" /\ BootNext
          /\ UNCHANGED <<strVars, printfVars, frameVars, timerVars, uartVars, memVars, pinVars, startVars>>
       \/ /\ part = "timer" /\ TimerNext
          /\ UNCHANGED <<strVars, printfVars, frameVars, bootVars, uartVars, memVars, pinVars, startVars>>
       \/ /\ part = "uart" /\ UartNext
          /\ UNCHANGED <<strVars, printfVars, frameVars, bootVars, timerVars, memVars, pinVars, startVars>>
       \/ /\ part = "memory" /\ MemNext
          /\ UNCHANGED <<strVars, printfVars, frameVars, bootVars, timerVars, uartVars, pinVars, startVars>>
       \/ /\ part = "gpio" /\ GpioNext
          /\ UNCHANGED <<strVars, printfVars, frameVars, bootVars, timerVars, uartVars, memVars, startVars>>
       \/ /\ part = "mux" /\ MuxNext
          /\ UNCHANGED <<strVars, printfVars, frameVars, bootVars, timerVars, uartVars, memVars, startVars>>
       \/ /\ part = "start" /\ StartNext
          /\ UNCHANGED <<strVars, printfVars, frameVars, bootVars, timerVars, uartVars, memVars, pinVars>>

LibSpec == LibInit /\ [][LibNext]_libVars

-----------------------------------------------------------------------------
\* string.c: see StringsAgree.
StringsMeanWhatTheySay == part = "strings" => StringsAgree

\* cmd_bootlinux.c: see KernelGetsWhatWasAsked.
BootsAsAsked == part = "boot" => KernelGetsWhatWasAsked

\* timer.c: see DelayKeepsTime.
WaitsKeepTime == part = "timer" => DelayKeepsTime

\* uart.c: see FifosHold and TimesOutAsAsked.
UartPollsDecide == part = "uart" => FifosHold
GetcTimesOut == part = "uart" => TimesOutAsAsked

\* cmd_mem.c: see FaultsAreFound.
MemtestFinds == part = "memory" => FaultsAreFound

\* gpio.c and clock.c: see BanksAreClocked.
BanksRun == part = "gpio" => BanksAreClocked

\* iomux.c: see MuxAsListed.
FunctionsAsListed == part = "mux" => MuxAsListed

\* head.S: see ImageIsInPlace.
MainFindsItsImage == part = "start" => ImageIsInPlace

\* The start of the program: the image is where main() was linked, and the pins have the
\* functions main() lists for them.
BoardComesUp == MainFindsItsImage /\ FunctionsAsListed

-----------------------------------------------------------------------------
\* printf: two flags at most.
MCDirectives ==
    [flags : SeqOf({"-", "+", " ", "#", "0"}, 2), width : {0, 1, 2, 4, 6},
     conv : {"d", "u", "x", "o", "p"}]

\* Packets with up to two characters of data: letters, '#', control characters, those with
\* the eighth bit.
MCPayloads == SeqOf({65, 35, 1, 63, 127, 255, 163, 141}, 2)

\* Lines of up to three arguments, and longer ones that give a command line and boot.
MCSomeWords == {<<55>>, <<97, 98>>}
MCShort == SeqOf({OptC, OptB, OptH} \cup Names \cup MCSomeWords, 3)
MCLines ==
    {line \in (MCShort \cup {<<OptC>> \o s \o <<OptB>> : s \in SeqOf(MCSomeWords, 3)}) \ {<<>>} :
        /\ Last(line) \notin Names \cup {OptC}
        /\ \A k \in 1..Len(line) : line[k] \in Names => line[k + 1][1] # Hyphen}
MCDefaultCmdline == <<105, 61, 49>>

\* Pins of two registers and of one that is none, also going back to the register before.
MCMuxPins == [offset : {76, 80, 84}, shift : {0, 4}, fn : {1, 2}]
MCMuxLists ==
    SeqOf(MCMuxPins, 2)
    \cup {<<p, q, [p EXCEPT !.shift = s], r>> : p, q, r \in MCMuxPins, s \in {0, 4}}
=============================================================================

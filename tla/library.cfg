SPECIFICATION LibSpec
INVARIANTS StringsMeanWhatTheySay PrintfReadsBack FramesDecode BootsAsAsked
    WaitsKeepTime UartPollsDecide MemtestFinds BanksRun BoardComesUp
CONSTANTS
    \* string.c
    MemSize = 5
    Chars = {1, 2}
    \* stdio.c, vsprintf.c
    WordSize = 256
    Directives <- MCDirectives
    Arguments = {0, 1, 7, 9, 10, 16, 100, 127, 128, 200, 255}
    \* kermit_getpacket()
    Payloads <- MCPayloads
    Seqs = {0, 35, 63}
    Types = {68, 83, 90}
    \* cmd_bootlinux.c
    Lines <- MCLines
    MAX_CMD_ARG = 6
    MAX_CMD_ARG_LEN = 3
    CmdlineSize = 18
    DefaultCmdline <- MCDefaultCmdline
    Commands = 2
    \* timer.c
    CounterMod = 16
    ChunkMax = 7
    Latency = 3
    Thousand = 3
    timer_rate = 29
    RoundMax = 18
    Delays = {1, 2, 3, 7, 9, 14, 18, 25}
    \* uart.c
    TX_FIFO_DEPTH = 2
    RX_FIFO_DEPTH = 2
    PutPolls = 3
    MsPolls = 3
    WordMod = 8
    Expires = {0, 1, 2, 3, 4, 6}
    \* cmd_memtest()
    Words = 5
    WordRange = 16
    \* gpio.c, iomux.c
    Banks = {"bank0", "bank1"}
    PinsOfBank = {1, 2}
    MuxLists <- MCMuxLists
    \* head.S
    TextBase = 8
    Image = 5
    Bss = 4
    Block = 2
    RamSize = 22
CHECK_DEADLOCK FALSE

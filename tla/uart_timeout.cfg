SPECIFICATION LibSpec
INVARIANT GetcTimesOut
CONSTANTS
    \* string.c
    MemSize = 1
    Chars = {1, 2}
    \* stdio.c, vsprintf.c
    WordSize = 256
    Directives = {}
    Arguments = {}
    \* kermit_getpacket()
    Payloads = {}
    Seqs = {}
    Types = {}
    \* cmd_bootlinux.c
    Lines = {}
    MAX_CMD_ARG = 6
    MAX_CMD_ARG_LEN = 3
    CmdlineSize = 18
    DefaultCmdline <- MCDefaultCmdline
    Commands = 2
    \* timer.c
    CounterMod = 16
    ChunkMax = 7
    Latency = 3
    Thousand = 3
    timer_rate = 29
    RoundMax = 18
    Delays = {}
    \* uart.c
    TX_FIFO_DEPTH = 2
    RX_FIFO_DEPTH = 2
    PutPolls = 3
    MsPolls = 3
    WordMod = 8
    Expires = {0, 1, 2, 3, 4, 6}
    \* cmd_memtest()
    Words = 5
    WordRange = 16
    \* gpio.c, iomux.c
    Banks = {}
    PinsOfBank = {1, 2}
    MuxLists = {}
    \* head.S
    TextBase = 8
    Image = 5
    Bss = 4
    Block = 2
    RamSize = 22
CHECK_DEADLOCK FALSE
